---- MODULE Spec2Model ----
(***************************************************************************)
(* Model of the signal-driven backtest engine of src/backtest.py.         *)
(*                                                                         *)
(* backtest_strategy walks the bars of a DataFrame once, keeps a single    *)
(* position (FLAT / LONG), records one equity point per bar and one trade  *)
(* per closed position, and derives its statistics from the ledger.        *)
(*                                                                         *)
(* Python floats are modelled as exact rationals <<numerator, denominator>>*)
(* in lowest terms with a positive denominator, so that every division the *)
(* code performs (capital / price, returns, ratios) is computed and not    *)
(* assumed.  Prices and dates are integers; bar i of the code (0-based)    *)
(* is bar i+1 here.  annual_return and sharpe_ratio need a fractional      *)
(* power and a square root and are left out of the computed result.        *)
(*                                                                         *)
(* Spec explores direct calls with arbitrary columns (values -2..2), calls *)
(* on a missing column, backtest_stock's Combined run, longer runs on      *)
(* per-strategy columns (values -1..1) and the worked example of the       *)
(* specification.  SpecLedger explores the longer runs over one more price *)
(* level, which the profit-factor accounting needs.                        *)
(*                                                                         *)
(* SpecSignals explores generate_signals of src/strategy.py bar by bar:    *)
(* the DataFrame's indicator values come into view one bar at a time, NaN  *)
(* included, and the signal columns are kept for every bar.  SpecScore     *)
(* explores calc_score of src/backtest.py, called directly and on what     *)
(* backtest_stock returns.                                                 *)
(*                                                                         *)
(* SpecFair is the backtest under weak fairness of its steps, on one       *)
(* rising price series.  SpecKdj explores calc_kdj of src/indicators.py,   *)
(* SpecPipeline the RSI strategy through backtest_stock (calc_rsi, the     *)
(* signal_rsi column, backtest_strategy), SpecMain the parsing of main's   *)
(* -s option, SpecBatch the loop of analyze_batch, and SpecLogin and       *)
(* SpecThreaded the login route of src/auth.py with requests handled one   *)
(* after the other and by concurrent threads.                              *)
(***************************************************************************)
EXTENDS Integers, Sequences, FiniteSets, TLC

\* ------------------------------------------------------------------ bounds
MaxBars == 2          \* longest series with arbitrary signals in -2..2
MaxPrice == 2         \* closes are 1..MaxPrice
MaxCapital == 2       \* initial_capital of a direct call is 1..MaxCapital
MaxGap == 2           \* calendar days between consecutive bars: 1..MaxGap
MaxBarsLedger == 4    \* longest series with per-strategy signals in -1..1
MaxSigBars == 3       \* longest DataFrame given to generate_signals
MaxStrategies == 2    \* most strategies in a result given to calc_score
MaxBarsFair == 2      \* longest series of the runs checked for progress
\* calc_kdj: bars of one series, and the largest price of a bar
MaxKdjBars == 3
MaxKdjPrice == 2
\* backtest_stock: bars of the price series, and its largest close
MaxPipeBars == 3
MaxPipePrice == 4
MaxKeys == 2           \* most comma-separated keys given to -s
MaxCodes == 3          \* most instruments in one batch
MaxNow == 17           \* last minute of the clock of login

\* --------------------------------------------------------- float arithmetic
Abs(n) == IF n < 0 THEN -n ELSE n

RECURSIVE GCD(_, _)
GCD(a, b) == IF b = 0 THEN a ELSE GCD(b, a % b)

RNorm(n, d) ==
    LET s == IF d < 0 THEN -1 ELSE 1
        g == GCD(Abs(n), Abs(d))
    IN  IF n = 0 THEN <<0, 1>> ELSE <<(s * n) \div g, (s * d) \div g>>

R(n) == <<n, 1>>
Zero == <<0, 1>>
One == <<1, 1>>
Hundred == <<100, 1>>

RAdd(a, b) == RNorm(a[1] * b[2] + b[1] * a[2], a[2] * b[2])
RSub(a, b) == RNorm(a[1] * b[2] - b[1] * a[2], a[2] * b[2])
RMul(a, b) == RNorm(a[1] * b[1], a[2] * b[2])
RDiv(a, b) == RNorm(a[1] * b[2], a[2] * b[1])
RLt(a, b) == a[1] * b[2] < b[1] * a[2]
RLe(a, b) == a[1] * b[2] <= b[1] * a[2]
RAbs(a) == <<Abs(a[1]), a[2]>>

RECURSIVE RSum(_)
RSum(s) == IF s = <<>> THEN Zero ELSE RAdd(s[1], RSum(Tail(s)))

RECURSIVE ISum(_)
ISum(s) == IF s = <<>> THEN 0 ELSE s[1] + ISum(Tail(s))

RMean(s) == RDiv(RSum(s), R(Len(s)))

\* ------------------------------------------------------------------- state
VARIABLES
    caller,            \* "backtest_strategy" (direct call) or "backtest_stock"
    close,             \* df['close'], one integer price per bar
    dates,             \* df.index, strictly ascending calendar days
    has_column,        \* signal_column in df.columns
    signal_combined,   \* df['signal_combined'] when called by backtest_stock
    sig,               \* df[signal_column]
    initial_capital,   \* argument of backtest_strategy
    pc,                \* "stock", "start", "loop", "stats", "done"
    i,                 \* loop index, 1-based
    capital, position, holding_shares, entry_price, entry_date,
    trades, equity_curve,
    result,            \* the returned dict
    \* generate_signals (src/strategy.py)
    family,            \* which indicator group of the DataFrame varies
    n_bars,            \* len(df)
    li,                \* the bar being visited, 1-based
    prev_row,          \* the indicator values of bar li - 1 (shift(1))
    row,               \* the indicator values of bar li
    out,               \* the signal columns written so far, one record per bar
    has_score,         \* the score_combined column exists
    spc,               \* "idle", "gen_start", "gen_loop", "gen_done"
    \* calc_score (src/backtest.py)
    latest,            \* what backtest_stock has computed for its return
    score_arg,         \* the result dict given to calc_score
    scores,            \* the dict calc_score returns
    cpc,               \* "idle", "stock_return", "score_start", "score_done"
    \* one record per further function; [pc |-> "idle"] while it is not running
    kdj,               \* calc_kdj (src/indicators.py)
    pipe,              \* backtest_stock's pipeline on one price series
    cli,               \* main's parsing of -s (src/main.py)
    batch,             \* analyze_batch (src/batch_analyze.py)
    auth               \* login requests and the users row (src/auth.py)

generate_state == <<family, n_bars, li, prev_row, row, out, has_score, spc>>
score_state == <<latest, score_arg, scores, cpc>>
later_state == <<kdj, pipe, cli, batch, auth>>

vars == <<caller, close, dates, has_column, signal_combined, sig,
          initial_capital, pc, i, capital, position, holding_shares,
          entry_price, entry_date, trades, equity_curve, result,
          generate_state, score_state, later_state>>

\* what a step of backtest_strategy cannot touch
elsewhere == <<generate_state, score_state, later_state>>

inputs == <<caller, close, dates, has_column, signal_combined, initial_capital>>
locals == <<capital, position, holding_shares, entry_price, entry_date,
            trades, equity_curve>>

None == 0              \* entry_date = None; real dates are >= 1
NoResult == [trade_count |-> -1]

\* ------------------------------------------------------------------ inputs
ScenarioClose == <<10, 11, 12, 11, 13, 14, 12, 15, 16, 14>>
ScenarioSignal == <<0, 0, 1, 0, 0, -1, 0, 0, 0, 0>>

SeqsOf(S, n) == [1..n -> S]

DatesOf(n, gap) == [k \in 1..n |-> 1 + (k - 1) * gap]

\* ------------------------------------------------------------ backtest_stock
signal_combined_simple(s) ==
    IF s >= 1 THEN 1 ELSE IF s <= -1 THEN -1 ELSE 0

\* --------------------------------------------------------- backtest_strategy
DateAt(k) == dates[k]
\* reads the previous bar's close instead of the current one
PriceAt_Previous(k) == close[IF k > 1 THEN k - 1 ELSE 1]
PriceAt(k) == close[k]
SignalAt(k) == sig[k]

\* never marks the open position to market
CurrentValue_CashOnly(pos, shares, price, cash) == cash

CurrentValue(pos, shares, price, cash) ==
    IF pos > 0 THEN RMul(shares, R(price)) ELSE cash

\* buys on any positive signal
IsBuy_AnyPositive(signal, pos) == signal >= 1 /\ pos = 0
IsBuy(signal, pos) == signal = 1 /\ pos = 0
\* sells on any negative signal
IsSell_AnyNegative(signal, pos) == signal <= -1 /\ pos > 0
IsSell(signal, pos) == signal = -1 /\ pos > 0

SharesBought(cash, price) == RDiv(cash, R(price))
\* a sale that brings in nothing
Proceeds_Nothing(shares, price) == Zero
Proceeds(shares, price) == RMul(shares, R(price))

ReturnPct(entryP, exitP) ==
    RMul(RDiv(RSub(R(exitP), R(entryP)), R(entryP)), Hundred)

ReturnAbs(cash, initial) == RSub(cash, initial)

\* records the exit day as the entry day
MakeTrade_ExitAsEntry(entryD, entryP, exitD, exitP, cash, initial) ==
    [entry_date  |-> exitD,
     entry_price |-> entryP,
     exit_date   |-> exitD,
     exit_price  |-> exitP,
     return      |-> ReturnPct(entryP, exitP),
     return_abs  |-> ReturnAbs(cash, initial),
     hold_days   |-> exitD - entryD,
     trade_type  |-> "long"]
MakeTrade(entryD, entryP, exitD, exitP, cash, initial) ==
    [entry_date  |-> entryD,
     entry_price |-> entryP,
     exit_date   |-> exitD,
     exit_price  |-> exitP,
     return      |-> ReturnPct(entryP, exitP),
     return_abs  |-> ReturnAbs(cash, initial),
     hold_days   |-> exitD - entryD,
     trade_type  |-> "long"]

\* stamps a signalled sale with the last bar's date, as the forced close does
SellExitDate_LastBar(k) == dates[Len(dates)]
SellExitDate(k) == DateAt(k)
\* closes the open position at the first bar's close
ForcedExitPrice_FirstBar == close[1]
ForcedExitPrice == close[Len(close)]
\* stamps the forced close with the first bar's date
ForcedExitDate_FirstBar == dates[1]
ForcedExitDate == dates[Len(dates)]

\* ---------------------------------------------------------------- statistics
IsWin(t) == RLt(Zero, t.return)
\* a trade with return 0 is neither a win nor a loss
IsLoss_Strict(t) == RLt(t.return, Zero)
IsLoss(t) == RLe(t.return, Zero)
WinTrades(ts) == SelectSeq(ts, IsWin)
LossTrades(ts) == SelectSeq(ts, IsLoss)

Returns(ts) == [k \in 1..Len(ts) |-> ts[k].return]
ReturnsAbs(ts) == [k \in 1..Len(ts) |-> ts[k].return_abs]
HoldDays(ts) == [k \in 1..Len(ts) |-> ts[k].hold_days]

TotalWin(ts) ==
    IF WinTrades(ts) # <<>> THEN RSum(ReturnsAbs(WinTrades(ts))) ELSE Zero
TotalLoss(ts) ==
    IF LossTrades(ts) # <<>> THEN RAbs(RSum(ReturnsAbs(LossTrades(ts)))) ELSE Zero

\* reports the total win when nothing was lost
ProfitFactor_NoLossIsTotalWin(ts) ==
    IF RLt(Zero, TotalLoss(ts)) THEN RDiv(TotalWin(ts), TotalLoss(ts)) ELSE TotalWin(ts)

ProfitFactor(ts) ==
    IF RLt(Zero, TotalLoss(ts)) THEN RDiv(TotalWin(ts), TotalLoss(ts)) ELSE Zero

\* measures every decline from the first value and never moves the peak
RECURSIVE DrawdownFrom_FirstPeak(_, _, _, _)
DrawdownFrom_FirstPeak(curve, k, peak, max_dd) ==
    IF k > Len(curve) THEN max_dd
    ELSE LET dd == RMul(RDiv(RSub(peak, curve[k][2]), peak), Hundred)
         IN  DrawdownFrom_FirstPeak(curve, k + 1, peak,
                                    IF RLt(max_dd, dd) THEN dd ELSE max_dd)

RECURSIVE DrawdownFrom(_, _, _, _)
DrawdownFrom(curve, k, peak, max_dd) ==
    IF k > Len(curve) THEN max_dd
    ELSE LET value == curve[k][2]
             pk == IF RLt(peak, value) THEN value ELSE peak
             dd == RMul(RDiv(RSub(pk, value), pk), Hundred)
         IN  DrawdownFrom(curve, k + 1, pk, IF RLt(max_dd, dd) THEN dd ELSE max_dd)

_calculate_max_drawdown(curve) ==
    IF curve = <<>> THEN Zero ELSE DrawdownFrom(curve, 1, curve[1][2], Zero)

_empty_result ==
    [trades         |-> <<>>,
     trade_count    |-> 0,
     total_return   |-> Zero,
     annual_return  |-> Zero,
     final_value    |-> One,
     win_count      |-> 0,
     loss_count     |-> 0,
     win_rate       |-> Zero,
     avg_win        |-> Zero,
     avg_loss       |-> Zero,
     profit_factor  |-> Zero,
     max_drawdown   |-> Zero,
     sharpe_ratio   |-> Zero,
     avg_hold_days  |-> Zero,
     start_date     |-> None,
     end_date       |-> None,
     total_days     |-> 0,
     trading_days   |-> 0,
     equity_curve   |-> <<>>]

Statistics(ts, curve, cash, initial) ==
    LET trade_count == Len(ts)
        win_trades == WinTrades(ts)
        loss_trades == LossTrades(ts)
    IN  [trades         |-> ts,
         trade_count    |-> trade_count,
         total_return   |-> RMul(RDiv(RSub(cash, initial), initial), Hundred),
         final_value    |-> cash,
         win_count      |-> Len(win_trades),
         loss_count     |-> Len(loss_trades),
         win_rate       |-> RMul(RDiv(R(Len(win_trades)), R(trade_count)), Hundred),
         avg_win        |-> IF win_trades # <<>> THEN RMean(Returns(win_trades)) ELSE Zero,
         avg_loss       |-> IF loss_trades # <<>> THEN RMean(Returns(loss_trades)) ELSE Zero,
         profit_factor  |-> ProfitFactor(ts),
         max_drawdown   |-> _calculate_max_drawdown(curve),
         avg_hold_days  |-> RDiv(R(ISum(HoldDays(ts))), R(trade_count)),
         start_date     |-> dates[1],
         end_date       |-> dates[Len(dates)],
         total_days     |-> dates[Len(dates)] - dates[1],
         trading_days   |-> ISum(HoldDays(ts)),
         equity_curve   |-> curve]

\* --------------------------------------------------------- generate_signals
\* Indicator values are integers: MA5, MA20, DIF, DEA, close, high_20 and
\* low_20 in price units, K, D and RSI in points, BOLL_POS in hundredths and
\* VOL_RATIO in tenths.  NaN is the undefined value of pandas; a comparison
\* with NaN on either side is False.
NaN == -999

Gt(a, b) == a # NaN /\ b # NaN /\ a > b
Lt(a, b) == a # NaN /\ b # NaN /\ a < b
Ge(a, b) == a # NaN /\ b # NaN /\ a >= b
Le(a, b) == a # NaN /\ b # NaN /\ a <= b

Row(ma5, ma20, dif, dea, pos, k, d, rsi, cl, hi, lo, vr) ==
    [MA5 |-> ma5, MA20 |-> ma20, DIF |-> dif, DEA |-> dea, BOLL_POS |-> pos,
     K |-> k, D |-> d, RSI |-> rsi, price |-> cl, high_20 |-> hi,
     low_20 |-> lo, VOL_RATIO |-> vr]

\* shift(1) at the first bar
NaNRow == Row(NaN, NaN, NaN, NaN, NaN, NaN, NaN, NaN, NaN, NaN, NaN, NaN)
\* a bar on which no rule can fire, whatever the bar before it
QuietRow == Row(2, 2, 2, 2, 50, 50, 50, 50, 3, 3, 3, 10)

\* the columns "df['signal'] = 0" ... before the loop; score_combined is
\* created after the loop (has_score)
ZeroSignals ==
    [signal |-> 0, signal_boll |-> 0, signal_kdj |-> 0, signal_rsi |-> 0,
     signal_volume |-> 0, score_combined |-> 0, combined |-> 0]

\* "for i in range(1, len(df))": the loop visits every bar but the first
\* visits the first bar as well
LoopVisits_All(k) == k >= 1
LoopVisits(k) == k >= 2

\* flag.shift(1).astype(bool).fillna(False): the NaN that shift(1) leaves at
\* the first bar becomes True under astype(bool)
shift_astype_bool(k, flag_prev) == IF k = 1 THEN TRUE ELSE flag_prev

ma5_above(r) == Gt(r.MA5, r.MA20)
ma5_cross_up(k, p, c) == ma5_above(c) /\ ~shift_astype_bool(k, ma5_above(p))
ma5_cross_down(k, p, c) == ~ma5_above(c) /\ shift_astype_bool(k, ma5_above(p))

dif_above(r) == Gt(r.DIF, r.DEA)
dif_cross_up(k, p, c) == dif_above(c) /\ ~shift_astype_bool(k, dif_above(p))
dif_cross_down(k, p, c) == ~dif_above(c) /\ shift_astype_bool(k, dif_above(p))

boll_bounce_up(p, c) ==
    Lt(p.BOLL_POS, 10) /\ Ge(c.BOLL_POS, 10) /\ Lt(c.BOLL_POS, 50)
boll_bounce_down(p, c) ==
    Gt(p.BOLL_POS, 90) /\ Le(c.BOLL_POS, 90) /\ Gt(c.BOLL_POS, 50)

k_above_d(r) == Gt(r.K, r.D)
kdj_cross_up(k, p, c) == k_above_d(c) /\ ~shift_astype_bool(k, k_above_d(p))
kdj_cross_down(k, p, c) == ~k_above_d(c) /\ shift_astype_bool(k, k_above_d(p))

rsi_bounce_up(p, c) == Lt(p.RSI, c.RSI) /\ Lt(c.RSI, 30)
rsi_bounce_down(p, c) == Gt(p.RSI, c.RSI) /\ Gt(c.RSI, 70)

breakout_high(p, c) == Gt(c.price, p.high_20)
breakout_low(p, c) == Lt(c.price, p.low_20)
volume_surge(c) == Gt(c.VOL_RATIO, 20)
volume_shrink(c) == Lt(c.VOL_RATIO, 5)

\* the loop body: the value each column gets at bar k (0 when no branch
\* assigns, the column's initial value)
\* sells only when both lines cross down
signal_ma_macd_BothCrossDown(k, p, c) ==
    IF ma5_cross_up(k, p, c) /\ dif_above(c) THEN 1
    ELSE IF dif_cross_up(k, p, c) /\ ma5_above(c) THEN 1
    ELSE IF ma5_cross_down(k, p, c) /\ dif_cross_down(k, p, c) THEN -1
    ELSE 0
signal_ma_macd(k, p, c) ==
    IF ma5_cross_up(k, p, c) /\ dif_above(c) THEN 1
    ELSE IF dif_cross_up(k, p, c) /\ ma5_above(c) THEN 1
    ELSE IF ma5_cross_down(k, p, c) \/ dif_cross_down(k, p, c) THEN -1
    ELSE 0

signal_boll(p, c) ==
    IF boll_bounce_up(p, c) THEN 1
    ELSE IF boll_bounce_down(p, c) THEN -1
    ELSE 0

signal_kdj(k, p, c) ==
    LET k_val == c.K
    IN  IF kdj_cross_up(k, p, c) /\ Lt(k_val, 30) THEN 1
        ELSE IF kdj_cross_up(k, p, c) /\ Lt(k_val, 50) THEN 1
        ELSE IF kdj_cross_down(k, p, c) /\ Gt(k_val, 70) THEN -1
        ELSE IF kdj_cross_down(k, p, c) /\ Gt(k_val, 50) THEN -1
        ELSE 0

signal_rsi(p, c) ==
    IF rsi_bounce_up(p, c) THEN 1
    ELSE IF rsi_bounce_down(p, c) THEN -1
    ELSE 0

signal_volume(p, c) ==
    IF breakout_high(p, c) /\ volume_surge(c) THEN 1
    ELSE IF breakout_low(p, c) \/ volume_shrink(c) THEN -1
    ELSE 0

LoopBody(rec, k, p, c) ==
    [rec EXCEPT !.signal = signal_ma_macd(k, p, c),
                !.signal_boll = signal_boll(p, c),
                !.signal_kdj = signal_kdj(k, p, c),
                !.signal_rsi = signal_rsi(p, c),
                !.signal_volume = signal_volume(p, c)]

\* the weighted score and the five "df.loc[...] = ..." statements, in order
score_of(rec) ==
    rec.signal * 30 + rec.signal_boll * 20 + rec.signal_volume * 20
      + rec.signal_kdj * 15 + rec.signal_rsi * 15

\* a score of exactly 40 is still a hold
combined_of_Above40(score) ==
    LET s0 == 0
        s1 == IF score >= 60 THEN 2 ELSE s0
        s2 == IF score > 40 /\ score < 60 THEN 1 ELSE s1
        s3 == IF score > -40 /\ score < 40 THEN 0 ELSE s2
        s4 == IF score <= -40 /\ score > -60 THEN -1 ELSE s3
    IN  IF score <= -60 THEN -2 ELSE s4
combined_of(score) ==
    LET s0 == 0
        s1 == IF score >= 60 THEN 2 ELSE s0
        s2 == IF score >= 40 /\ score < 60 THEN 1 ELSE s1
        s3 == IF score > -40 /\ score < 40 THEN 0 ELSE s2
        s4 == IF score <= -40 /\ score > -60 THEN -1 ELSE s3
    IN  IF score <= -60 THEN -2 ELSE s4

\* latest.get('score_combined', 0): how every reader takes the score
ScoreRead(rec) == IF has_score THEN rec.score_combined ELSE 0

\* the DataFrames given to generate_signals: one indicator group varies and
\* the others stay quiet, or ("CORE") every group takes one of three
\* postures after a set-up bar, which yields every combination of signals
MAValues ==
    {<<NaN, NaN>>} \cup { <<x, NaN>> : x \in 1..3 } \cup { <<x, 2>> : x \in 1..3 }
KDValues ==
    {<<NaN, NaN>>} \cup { <<k, k + e>> : k \in {20, 40, 50, 60, 80}, e \in {-5, 0, 5} }
BandValues(c) == { <<NaN, NaN>>, <<c, c>>, <<4, 2>> }

RowsOf(f) ==
    CASE f = "MA" ->
           { [QuietRow EXCEPT !.MA5 = m[1], !.MA20 = m[2], !.DIF = a] :
               m \in MAValues, a \in 1..3 }
      [] f = "BOLL" ->
           { [QuietRow EXCEPT !.BOLL_POS = b] : b \in {NaN, 5, 10, 30, 50, 70, 90, 95} }
      [] f = "KDJ" ->
           { [QuietRow EXCEPT !.K = kd[1], !.D = kd[2]] : kd \in KDValues }
      [] f = "RSI" ->
           { [QuietRow EXCEPT !.RSI = r] : r \in {NaN, 20, 25, 30, 50, 70, 75, 80} }
      [] f = "VOL" ->
           UNION { { [QuietRow EXCEPT !.price = c, !.high_20 = b[1],
                                      !.low_20 = b[2], !.VOL_RATIO = v] :
                       b \in BandValues(c), v \in {NaN, 4, 10, 21} } : c \in 2..4 }

CoreSetups ==
    { Row(1, 2, 3, 2, b, kd[1], kd[2], r, 3, 3, 3, 10) :
        b \in {5, 95}, kd \in {<<30, 35>>, <<70, 65>>}, r \in {20, 80} }
CoreRows ==
    { Row(m[1], 2, m[2], 2, b, kd[1], kd[2], r, v[1], v[1], 3, v[2]) :
        m \in {<<1, 3>>, <<3, 3>>, <<1, 1>>}, b \in {30, 50, 70},
        kd \in {<<40, 35>>, <<50, 50>>, <<60, 65>>}, r \in {25, 50, 75},
        v \in {<<4, 21>>, <<3, 10>>, <<3, 4>>} }

Families == {"MA", "BOLL", "KDJ", "RSI", "VOL", "CORE"}
LengthsOf(f) == IF f = "CORE" THEN {2} ELSE 0..MaxSigBars
RowsAt(f, k) ==
    IF f = "CORE" THEN (IF k = 1 THEN CoreSetups ELSE CoreRows) ELSE RowsOf(f)

\* generate_signals is not running
GenerateIdle ==
    /\ family = "none"
    /\ n_bars = 0
    /\ li = 0
    /\ prev_row = NaNRow
    /\ row = NaNRow
    /\ out = <<>>
    /\ has_score = FALSE
    /\ spc = "idle"

\* ------------------------------------------------------------- calc_score
\* RSI, win_rate and annual_return are integers (points, percent); the
\* volume ratio and the Sharpe ratio are in tenths.  Absent is Python's None
\* where the value may be any number; a missing pattern entry is "none".
Absent == -998

\* one entry of result['strategies'], as backtest_strategy returns it
Strategy(tc, tr, wr, ar, sr) ==
    [trade_count |-> tc, total_return |-> tr, win_rate |-> wr,
     annual_return |-> ar, sharpe_ratio |-> sr]
\* _empty_result: a strategy that closed no trade
EmptyStrategy == Strategy(0, 0, 0, 0, 0)
\* the worked example: win_rate 70, annual_return 20, sharpe 1.5
ScenarioStrategy == Strategy(3, 25, 70, 20, 15)

ScoreArg(ma, macd, rsi, vol, strats) ==
    [ma |-> ma, macd |-> macd, rsi |-> rsi, vol_ratio |-> vol, strategies |-> strats]
NoArg == ScoreArg("none", "none", Absent, Absent, <<>>)
NoScores == [total |-> -1]

trend_score(ma, macd) ==
    IF ma = "bull" /\ macd = "bull" THEN 30
    ELSE IF ma = "bull" /\ macd = "bear" THEN 20
    ELSE IF ma = "bear" /\ macd = "bull" THEN 15
    ELSE 5

\* "if rsi is not None": NaN is not None, and compares False with everything
rsi_score(rsi) ==
    IF rsi # Absent
    THEN IF Lt(rsi, 30) THEN 16
         ELSE IF Lt(rsi, 50) THEN 20
         ELSE IF Lt(rsi, 70) THEN 14
         ELSE 6
    ELSE 10

volume_score(vol_ratio) ==
    IF vol_ratio # Absent
    THEN IF Lt(vol_ratio, 7) THEN 5
         ELSE IF Lt(vol_ratio, 15) THEN 10
         ELSE IF Lt(vol_ratio, 25) THEN 8
         ELSE 4
    ELSE 5

\* keeps the strategies that closed no trade
valid_strategies_All(strats) == strats
valid_strategies(strats) == SelectSeq(strats, LAMBDA s : s.trade_count > 0)

\* max(valid_strategies, key=total_return): the first of the maximal ones
best_strategy(valid) ==
    valid[CHOOSE j \in 1..Len(valid) :
            /\ \A m \in 1..Len(valid) : valid[m].total_return <= valid[j].total_return
            /\ \A m \in 1..(j - 1) : valid[m].total_return < valid[j].total_return]

winrate_score(win_rate) ==
    IF win_rate >= 65 THEN 20
    ELSE IF win_rate >= 55 THEN 16
    ELSE IF win_rate >= 50 THEN 12
    ELSE IF win_rate >= 40 THEN 8
    ELSE 4

return_score(annual_return) ==
    IF annual_return > 30 THEN 10
    ELSE IF annual_return > 15 THEN 8
    ELSE IF annual_return > 5 THEN 6
    ELSE IF annual_return > 0 THEN 4
    ELSE 0

sharpe_score(sharpe) ==
    IF sharpe > 20 THEN 10
    ELSE IF sharpe > 10 THEN 8
    ELSE IF sharpe > 5 THEN 6
    ELSE IF sharpe > 0 THEN 4
    ELSE 0

\* <<strategy_winrate, strategy_return, strategy_sharpe>>
strategy_scores(strats) ==
    IF Len(strats) > 0
    THEN LET valid == valid_strategies(strats)
         IN  IF Len(valid) > 0
             THEN LET best == best_strategy(valid)
                  IN  <<winrate_score(best.win_rate),
                        return_score(best.annual_return),
                        sharpe_score(best.sharpe_ratio)>>
             ELSE <<0, 0, 0>>
    ELSE <<0, 0, 0>>

\* leaves the Sharpe sub-score out of the sum
score_total_NoSharpe(trend, rsi, volume, st) ==
    trend + rsi + volume + st[1] + st[2]
score_total(trend, rsi, volume, st) ==
    trend + rsi + volume + st[1] + st[2] + st[3]

\* a total of exactly 80 is still a B
grade_of_Above80(total) ==
    IF total > 80 THEN <<"A", "buy">>
    ELSE IF total >= 65 THEN <<"B", "buy">>
    ELSE IF total >= 50 THEN <<"C", "hold">>
    ELSE IF total >= 35 THEN <<"D", "wait">>
    ELSE <<"E", "avoid">>
\* <<grade, action>>
grade_of(total) ==
    IF total >= 80 THEN <<"A", "buy">>
    ELSE IF total >= 65 THEN <<"B", "buy">>
    ELSE IF total >= 50 THEN <<"C", "hold">>
    ELSE IF total >= 35 THEN <<"D", "wait">>
    ELSE <<"E", "avoid">>

calc_score(arg) ==
    LET trend == trend_score(arg.ma, arg.macd)
        rsi == rsi_score(arg.rsi)
        volume == volume_score(arg.vol_ratio)
        st == strategy_scores(arg.strategies)
        total == score_total(trend, rsi, volume, st)
    IN  [trend |-> trend, rsi |-> rsi, volume |-> volume,
         strategy_winrate |-> st[1], strategy_return |-> st[2],
         strategy_sharpe |-> st[3], total |-> total,
         grade |-> grade_of(total)[1], action |-> grade_of(total)[2]]

\* the results calc_score is given
Patterns == {"bull", "bear", "none"}
RSIValues == {29, 30, 45, 49, 50, 69, 70}
VolValues == {6, 7, 10, 14, 15, 24, 25}
WinRates == {39, 40, 49, 50, 54, 55, 64, 65, 70}
AnnualReturns == {-5, 0, 1, 5, 6, 15, 16, 20, 30, 31}
Sharpes == {-5, 0, 1, 5, 6, 10, 11, 15, 20, 21}
\* a few whole strategies: no trade, winners, losers, a break-even
CoarseStrategies ==
    { EmptyStrategy, ScenarioStrategy, Strategy(2, 10, 50, 6, 6),
      Strategy(2, -10, 30, -5, -5), Strategy(4, -20, 60, -20, -10),
      Strategy(1, 0, 0, 0, 0) }

\* neither backtest_stock's return nor calc_score is running
ScoreIdle ==
    /\ latest = NoArg
    /\ score_arg = NoArg
    /\ scores = NoScores
    /\ cpc = "idle"

\* a function that is not running
Idle == [pc |-> "idle"]
LaterIdle ==
    /\ kdj = Idle
    /\ pipe = Idle
    /\ cli = Idle
    /\ batch = Idle
    /\ auth = Idle

\* ------------------------------------------------------------------- actions
\* a call: the arguments, and the locals before the function body runs
Call(c, cl, ds, hc, sc, sg, cap) ==
    /\ caller = c
    /\ close = cl
    /\ dates = ds
    /\ has_column = hc
    /\ signal_combined = sc
    /\ sig = sg
    /\ initial_capital = cap
    /\ pc = IF c = "backtest_stock" THEN "stock" ELSE "start"
    /\ i = 1
    /\ capital = Zero
    /\ position = 0
    /\ holding_shares = Zero
    /\ entry_price = 0
    /\ entry_date = None
    /\ trades = <<>>
    /\ equity_curve = <<>>
    /\ result = NoResult
    /\ GenerateIdle
    /\ ScoreIdle
    /\ LaterIdle

\* direct calls of backtest_strategy with an arbitrary signal column
WideCall ==
    \E n \in 0..MaxBars, cap \in 1..MaxCapital :
      \E cl \in SeqsOf(1..MaxPrice, n), sg \in SeqsOf(-2..2, n) :
        Call("backtest_strategy", cl, DatesOf(n, 1), TRUE, <<>>, sg, R(cap))

\* direct calls naming a column the DataFrame does not have
MissingColumnCall ==
    \E n \in 0..MaxBars, cap \in 1..MaxCapital :
      \E cl \in SeqsOf(1..MaxPrice, n) :
        Call("backtest_strategy", cl, DatesOf(n, 1), FALSE, <<>>, <<>>, R(cap))

\* backtest_stock running the Combined strategy (default initial_capital)
StockCall ==
    \E n \in 1..MaxBars, gap \in 1..MaxGap :
      \E cl \in SeqsOf(1..MaxPrice, n), sc \in SeqsOf(-2..2, n) :
        Call("backtest_stock", cl, DatesOf(n, gap), TRUE, sc, <<>>, One)

\* runs on a per-strategy column (values -1, 0, 1) with closes 1..top:
\* series long enough for several trades
LedgerCall(top) ==
    \E n \in 1..MaxBarsLedger :
      \E cl \in SeqsOf(1..top, n), sg \in SeqsOf(-1..1, n) :
        Call("backtest_strategy", cl, DatesOf(n, 1), TRUE, <<>>, sg, One)

\* the worked example: 10 bars on days 1..10
ScenarioCall ==
    \E cap \in 1..MaxCapital :
        Call("backtest_strategy", ScenarioClose, DatesOf(10, 1), TRUE, <<>>,
             ScenarioSignal, R(cap))

Init ==
    \/ WideCall
    \/ MissingColumnCall
    \/ StockCall
    \/ LedgerCall(MaxPrice)
    \/ ScenarioCall

\* the same calls, the ledgers over one more price level
InitLedger ==
    \/ MissingColumnCall
    \/ StockCall
    \/ LedgerCall(MaxPrice + 1)

\* backtest_stock: build signal_combined_simple and pass it as the column
CollapseCombined ==
    /\ pc = "stock"
    /\ sig' = [k \in 1..Len(signal_combined) |->
                 signal_combined_simple(signal_combined[k])]
    /\ pc' = "start"
    /\ UNCHANGED <<elsewhere, inputs, i, locals, result>>

\* if df.empty or signal_column not in df.columns: return _empty_result(...)
EarlyReturn ==
    /\ pc = "start"
    /\ (Len(close) = 0 \/ ~has_column)
    /\ result' = _empty_result
    /\ pc' = "done"
    /\ UNCHANGED <<elsewhere, inputs, sig, i, locals>>

\* initialisation of the locals before the loop
Begin ==
    /\ pc = "start"
    /\ ~(Len(close) = 0 \/ ~has_column)
    /\ capital' = initial_capital
    /\ position' = 0
    /\ holding_shares' = Zero
    /\ entry_price' = 0
    /\ entry_date' = None
    /\ trades' = <<>>
    /\ equity_curve' = <<>>
    /\ i' = 1
    /\ pc' = "loop"
    /\ UNCHANGED <<elsewhere, inputs, sig, result>>

\* one iteration of "for i in range(len(df))"
ProcessBar ==
    /\ pc = "loop"
    /\ i <= Len(close)
    /\ LET date == DateAt(i)
           price == PriceAt(i)
           signal == SignalAt(i)
           current_value == CurrentValue(position, holding_shares, price, capital)
       IN  /\ equity_curve' = Append(equity_curve, <<date, current_value>>)
           /\ IF IsBuy(signal, position)
              THEN /\ position' = 1
                   /\ entry_price' = price
                   /\ entry_date' = date
                   /\ holding_shares' = SharesBought(capital, price)
                   /\ capital' = Zero
                   /\ trades' = trades
              ELSE IF IsSell(signal, position)
              THEN /\ capital' = Proceeds(holding_shares, price)
                   /\ trades' = Append(trades,
                                  MakeTrade(entry_date, entry_price, SellExitDate(i),
                                            price, capital', initial_capital))
                   /\ position' = 0
                   /\ holding_shares' = Zero
                   /\ entry_price' = 0
                   /\ entry_date' = None
              ELSE UNCHANGED <<capital, position, holding_shares, entry_price,
                               entry_date, trades>>
    /\ i' = i + 1
    /\ UNCHANGED <<elsewhere, inputs, sig, pc, result>>

\* after the loop: "if position > 0" force-close at the last bar
ForcedClose ==
    /\ pc = "loop"
    /\ i > Len(close)
    /\ IF position > 0
       THEN /\ capital' = Proceeds(holding_shares, ForcedExitPrice)
            /\ trades' = Append(trades,
                           MakeTrade(entry_date, entry_price, ForcedExitDate,
                                     ForcedExitPrice, capital', initial_capital))
            /\ position' = 0
       ELSE UNCHANGED <<capital, trades, position>>
    /\ pc' = "stats"
    /\ UNCHANGED <<elsewhere, inputs, sig, i, holding_shares, entry_price, entry_date,
                   equity_curve, result>>

\* statistics and the returned dict
Finish ==
    /\ pc = "stats"
    /\ result' = IF Len(trades) = 0
                 THEN _empty_result
                 ELSE Statistics(trades, equity_curve, capital, initial_capital)
    /\ pc' = "done"
    /\ UNCHANGED <<elsewhere, inputs, sig, i, locals>>

Next ==
    \/ CollapseCombined
    \/ EarlyReturn
    \/ Begin
    \/ ProcessBar
    \/ ForcedClose
    \/ Finish

Spec == Init /\ [][Next]_vars
SpecLedger == InitLedger /\ [][Next]_vars

\* runs small enough to check progress on: closes 1, 2, 3, ..., signals
\* -1..1, called directly, by backtest_stock, or on a missing column
FairCall ==
    \E n \in 0..MaxBarsFair :
      \E sg \in SeqsOf(-1..1, n) :
        \/ Call("backtest_strategy", DatesOf(n, 1), DatesOf(n, 1), TRUE, <<>>, sg, One)
        \/ n >= 1 /\ Call("backtest_stock", DatesOf(n, 1), DatesOf(n, 1), TRUE, sg, <<>>, One)
        \/ Call("backtest_strategy", DatesOf(n, 1), DatesOf(n, 1), FALSE, <<>>, <<>>, One)

InitFair == FairCall

\* backtest_strategy is straight-line code around one bounded loop: a step
\* that can be taken is taken
SpecFair == InitFair /\ [][Next]_vars /\ WF_vars(Next)

\* ------------------------------------------------ generate_signals, actions
\* backtest_strategy is not running
BacktestIdle ==
    /\ caller = "none"
    /\ close = <<>>
    /\ dates = <<>>
    /\ has_column = FALSE
    /\ signal_combined = <<>>
    /\ sig = <<>>
    /\ initial_capital = One
    /\ pc = "idle"
    /\ i = 1
    /\ capital = Zero
    /\ position = 0
    /\ holding_shares = Zero
    /\ entry_price = 0
    /\ entry_date = None
    /\ trades = <<>>
    /\ equity_curve = <<>>
    /\ result = NoResult

backtest_state == <<inputs, sig, pc, i, locals, result>>

\* a call of generate_signals on n bars whose first bar is r
GenerateCall(f, n, r) ==
    /\ BacktestIdle
    /\ ScoreIdle
    /\ LaterIdle
    /\ family = f
    /\ n_bars = n
    /\ li = 1
    /\ prev_row = NaNRow
    /\ row = r
    /\ out = <<>>
    /\ has_score = FALSE
    /\ spc = "gen_start"

InitSignals ==
    \E f \in Families :
      \E n \in LengthsOf(f) :
        IF n = 0 THEN GenerateCall(f, 0, NaNRow)
        ELSE \E r \in RowsAt(f, 1) : GenerateCall(f, n, r)

\* the six signal columns are set to 0; "if len(df) < 2: return df"
ShortReturn ==
    /\ spc = "gen_start"
    /\ n_bars < 2
    /\ out' = [k \in 1..n_bars |-> ZeroSignals]
    /\ spc' = "gen_done"
    /\ UNCHANGED <<backtest_state, score_state, later_state, family, n_bars, li, prev_row, row, has_score>>

\* the six signal columns are set to 0 and the flags are computed
EnterLoop ==
    /\ spc = "gen_start"
    /\ n_bars >= 2
    /\ out' = [k \in 1..n_bars |-> ZeroSignals]
    /\ spc' = "gen_loop"
    /\ UNCHANGED <<backtest_state, score_state, later_state, family, n_bars, li, prev_row, row, has_score>>

\* bar li: the loop body when the loop visits the bar; then the next bar's
\* indicator values come into view
VisitBar ==
    /\ spc = "gen_loop"
    /\ li <= n_bars
    /\ out' = IF LoopVisits(li)
              THEN [out EXCEPT ![li] = LoopBody(@, li, prev_row, row)]
              ELSE out
    /\ li' = li + 1
    /\ IF li < n_bars
       THEN /\ prev_row' = row
            /\ row' \in RowsAt(family, li + 1)
       ELSE UNCHANGED <<prev_row, row>>
    /\ UNCHANGED <<backtest_state, score_state, later_state, family, n_bars, has_score, spc>>

\* after the loop: score_combined and signal_combined for every bar
Combine ==
    /\ spc = "gen_loop"
    /\ li > n_bars
    /\ out' = [k \in 1..n_bars |->
                 [out[k] EXCEPT !.score_combined = score_of(out[k]),
                                !.combined = combined_of(score_of(out[k]))]]
    /\ has_score' = TRUE
    /\ spc' = "gen_done"
    /\ UNCHANGED <<backtest_state, score_state, later_state, family, n_bars, li, prev_row, row>>

NextSignals ==
    \/ ShortReturn
    \/ EnterLoop
    \/ VisitBar
    \/ Combine

SpecSignals == InitSignals /\ [][NextSignals]_vars

\* ------------------------------------------------------ calc_score, actions
ScoreCall(c, lt, arg) ==
    /\ BacktestIdle
    /\ GenerateIdle
    /\ LaterIdle
    /\ latest = lt
    /\ score_arg = arg
    /\ scores = NoScores
    /\ cpc = c

\* calc_score on a result whose indicator entries vary; a missing key or a
\* None reads as None, NaN is what the latest bar may hold
IndicatorCall ==
    \E ma \in Patterns, macd \in Patterns :
      \E rsi \in RSIValues \cup {Absent, NaN}, vol \in VolValues \cup {Absent, NaN} :
        \E strats \in {<<>>, <<ScenarioStrategy>>} :
          ScoreCall("score_start", NoArg, ScoreArg(ma, macd, rsi, vol, strats))

\* calc_score on one traded strategy over the threshold tables
MetricsCall ==
    \E wr \in WinRates, ar \in AnnualReturns, sr \in Sharpes :
      ScoreCall("score_start", NoArg,
                ScoreArg("bull", "bull", 45, 10, <<Strategy(1, ar, wr, ar, sr)>>))

\* calc_score on up to MaxStrategies strategies
StrategiesCall ==
    \E n \in 0..MaxStrategies :
      \E strats \in SeqsOf(CoarseStrategies, n) :
        ScoreCall("score_start", NoArg, ScoreArg("bull", "bull", 45, 10, strats))

\* backtest_stock about to return: the latest bar's pattern, RSI and
\* VOL_RATIO (NaN while their windows are not full) and the strategies run
StockReturnCall ==
    \E ma \in Patterns, macd \in Patterns :
      \E rsi \in {NaN, 29, 45, 70}, vol \in {NaN, 6, 10, 25} :
        \E strats \in {<<EmptyStrategy>>, <<ScenarioStrategy>>} :
          ScoreCall("stock_return", ScoreArg(ma, macd, rsi, vol, strats), NoArg)

InitScore ==
    \/ IndicatorCall
    \/ MetricsCall
    \/ StrategiesCall
    \/ StockReturnCall

\* backtest_stock's return: current_rsi = latest.get('RSI'),
\* current_vol_ratio = latest.get('VOL_RATIO'), passed on unchanged
StockReturn ==
    /\ cpc = "stock_return"
    /\ score_arg' = ScoreArg(latest.ma, latest.macd, latest.rsi,
                             latest.vol_ratio, latest.strategies)
    /\ cpc' = "score_start"
    /\ UNCHANGED <<backtest_state, generate_state, later_state, latest, scores>>

CalcScore ==
    /\ cpc = "score_start"
    /\ scores' = calc_score(score_arg)
    /\ cpc' = "score_done"
    /\ UNCHANGED <<backtest_state, generate_state, later_state, latest, score_arg>>

NextScore ==
    \/ StockReturn
    \/ CalcScore

SpecScore == InitScore /\ [][NextScore]_vars

\* ----------------------------------------------------------------- calc_kdj
\* rsv of a bar whose window is not full, or whose high_n equals low_n (0/0)
RNaN == <<0, 0>>
isna(x) == x = RNaN

\* calc_kdj's defaults m1 = 3, m2 = 3 and the seed k_prev = d_prev = 50
m1 == 3
m2 == 3
Fifty == <<50, 1>>

\* one bar of df: its close and the rolling minimum/maximum ending at it
KdjBar(c, lo, hi) == [price |-> c, low_n |-> lo, high_n |-> hi]
FullBars == { KdjBar(c, lo, hi) : c \in 1..MaxKdjPrice, lo \in 1..MaxKdjPrice,
                                  hi \in 1..MaxKdjPrice }
WindowBars == { b \in FullBars : b.low_n <= b.price /\ b.price <= b.high_n }
\* the first n - 1 bars of a rolling(window=n) column are NaN
ShortBar == KdjBar(1, NaN, NaN)

\* rsv = (close - low_n) / (high_n - low_n) * 100
rsv_of(b) ==
    IF b.low_n = NaN \/ b.high_n = NaN \/ b.high_n = b.low_n THEN RNaN
    ELSE RMul(RDiv(R(b.price - b.low_n), R(b.high_n - b.low_n)), Hundred)

\* (m - 1) / m * prev + 1 / m * x
kdj_smooth_Half(m, prev, x) == RAdd(RMul(<<1, 2>>, prev), RMul(<<1, 2>>, x))
kdj_smooth(m, prev, x) ==
    RAdd(RMul(RDiv(R(m - 1), R(m)), prev), RMul(RDiv(One, R(m)), x))

\* df['J'] = 3 * df['K'] - 2 * df['D'], NaN where K or D is NaN
kdj_j(k, d) ==
    IF isna(k) \/ isna(d) THEN RNaN
    ELSE RSub(RMul(R(3), k), RMul(R(2), d))

KdjCall(df) ==
    /\ BacktestIdle
    /\ GenerateIdle
    /\ ScoreIdle
    /\ pipe = Idle /\ cli = Idle /\ batch = Idle /\ auth = Idle
    /\ kdj = [pc |-> "loop", df |-> df, i |-> 1, k_prev |-> Fifty, d_prev |-> Fifty,
              k_values |-> <<>>, d_values |-> <<>>, J |-> <<>>]

InitKdj ==
    \E n \in 0..MaxKdjBars :
      \E w \in 0..n :
        \E full \in SeqsOf(WindowBars, n - w) :
          KdjCall([t \in 1..n |-> IF t <= w THEN ShortBar ELSE full[t - w]])

\* one iteration of `for i in range(len(df))`
KdjLoop ==
    /\ kdj.pc = "loop"
    /\ kdj.i <= Len(kdj.df)
    /\ LET x == rsv_of(kdj.df[kdj.i])
           k == kdj_smooth(m1, kdj.k_prev, x)
           d == kdj_smooth(m2, kdj.d_prev, k)
       IN  IF isna(x)
           THEN kdj' = [kdj EXCEPT !.i = @ + 1,
                                   !.k_values = Append(@, RNaN),
                                   !.d_values = Append(@, RNaN)]
           ELSE kdj' = [kdj EXCEPT !.i = @ + 1,
                                   !.k_values = Append(@, k),
                                   !.d_values = Append(@, d),
                                   !.k_prev = k,
                                   !.d_prev = d]
    /\ UNCHANGED <<backtest_state, generate_state, score_state, pipe, cli, batch, auth>>

\* the columns K, D and J are written after the loop
KdjColumns ==
    /\ kdj.pc = "loop"
    /\ kdj.i > Len(kdj.df)
    /\ kdj' = [kdj EXCEPT !.pc = "done",
                          !.J = [t \in 1..Len(kdj.df) |->
                                    kdj_j(kdj.k_values[t], kdj.d_values[t])]]
    /\ UNCHANGED <<backtest_state, generate_state, score_state, pipe, cli, batch, auth>>

NextKdj ==
    \/ KdjLoop
    \/ KdjColumns

SpecKdj == InitKdj /\ [][NextKdj]_vars

\* ---------------------------------------- backtest_stock, the RSI strategy
\* calc_rsi's default period; ewm(span=period, adjust=False) has alpha 2/(span+1)
rsi_period == 14
ewm_alpha == RDiv(R(2), R(rsi_period + 1))

\* delta = close.diff() is NaN at the first bar, so gain and loss are 0 there
gain(cl, t) == IF t >= 2 /\ cl[t] > cl[t - 1] THEN R(cl[t] - cl[t - 1]) ELSE Zero
loss(cl, t) == IF t >= 2 /\ cl[t] < cl[t - 1] THEN R(cl[t - 1] - cl[t]) ELSE Zero

RECURSIVE avg_gain(_, _)
avg_gain(cl, t) ==
    IF t = 1 THEN gain(cl, 1)
    ELSE RAdd(RMul(RSub(One, ewm_alpha), avg_gain(cl, t - 1)),
              RMul(ewm_alpha, gain(cl, t)))

RECURSIVE avg_loss(_, _)
avg_loss(cl, t) ==
    IF t = 1 THEN loss(cl, 1)
    ELSE RAdd(RMul(RSub(One, ewm_alpha), avg_loss(cl, t - 1)),
              RMul(ewm_alpha, loss(cl, t)))

\* rs = avg_gain / avg_loss; RSI = 100 - 100 / (1 + rs)
\* (0/0 is NaN; x/0 is inf, and 100 - 100/inf is 100)
calc_rsi(cl, t) ==
    LET g == avg_gain(cl, t)
        l == avg_loss(cl, t)
    IN  IF l = Zero THEN (IF g = Zero THEN RNaN ELSE Hundred)
        ELSE RSub(Hundred, RDiv(Hundred, RAdd(One, RDiv(g, l))))

\* signal_rsi of bar t: rsi_prev = RSI.shift(1); the loop starts at the second
\* bar, and a series of fewer than 2 bars keeps the zero column
rsi_signal(rsi, t) ==
    IF Len(rsi) < 2 \/ t < 2 \/ isna(rsi[t - 1]) \/ isna(rsi[t]) THEN 0
    ELSE IF RLt(rsi[t - 1], rsi[t]) /\ RLt(rsi[t], R(30)) THEN 1
    ELSE IF RLt(rsi[t], rsi[t - 1]) /\ RLt(R(70), rsi[t]) THEN -1
    ELSE 0

\* df = get_stock_data(...)
StockData(cl) ==
    /\ BacktestIdle
    /\ GenerateIdle
    /\ ScoreIdle
    /\ kdj = Idle /\ cli = Idle /\ batch = Idle /\ auth = Idle
    /\ pipe = [pc |-> "data", close |-> cl, RSI |-> <<>>, signal_rsi |-> <<>>,
               strategies |-> NoResult]

InitPipeline ==
    \E n \in 0..MaxPipeBars :
      \E cl \in SeqsOf(1..MaxPipePrice, n) :
        StockData(cl)

\* if df.empty: return None
ReturnNone ==
    /\ pipe.pc = "data"
    /\ pipe.close = <<>>
    /\ pipe' = [pipe EXCEPT !.pc = "none"]
    /\ UNCHANGED <<backtest_state, generate_state, score_state, kdj, cli, batch, auth>>

\* df = calc_all_indicators(df): the RSI column
CalcAllIndicators ==
    /\ pipe.pc = "data"
    /\ pipe.close # <<>>
    /\ pipe' = [pipe EXCEPT !.pc = "signals",
                            !.RSI = [t \in 1..Len(pipe.close) |-> calc_rsi(pipe.close, t)]]
    /\ UNCHANGED <<backtest_state, generate_state, score_state, kdj, cli, batch, auth>>

\* df = generate_signals(df): the signal_rsi column
GenerateSignals ==
    /\ pipe.pc = "signals"
    /\ pipe' = [pipe EXCEPT !.pc = "backtest",
                            !.signal_rsi = [t \in 1..Len(pipe.RSI) |-> rsi_signal(pipe.RSI, t)]]
    /\ UNCHANGED <<backtest_state, generate_state, score_state, kdj, cli, batch, auth>>

\* result = backtest_strategy(df, 'signal_rsi', 'RSI')
BacktestRsi ==
    /\ pipe.pc = "backtest"
    /\ pc = "idle"
    /\ caller' = "backtest_stock"
    /\ close' = pipe.close
    /\ dates' = DatesOf(Len(pipe.close), 1)
    /\ has_column' = TRUE
    /\ sig' = pipe.signal_rsi
    /\ pc' = "start"
    /\ pipe' = [pipe EXCEPT !.pc = "running"]
    /\ UNCHANGED <<signal_combined, initial_capital, i, locals, result,
                   generate_state, score_state, kdj, cli, batch, auth>>

\* strategies['RSI'] = result
StoreResult ==
    /\ pipe.pc = "running"
    /\ pc = "done"
    /\ pipe' = [pipe EXCEPT !.pc = "done", !.strategies = result]
    /\ UNCHANGED <<backtest_state, generate_state, score_state, kdj, cli, batch, auth>>

NextPipeline ==
    \/ ReturnNone
    \/ CalcAllIndicators
    \/ GenerateSignals
    \/ BacktestRsi
    \/ Begin
    \/ ProcessBar
    \/ ForcedClose
    \/ Finish
    \/ StoreResult

SpecPipeline == InitPipeline /\ [][NextPipeline]_vars

\* ------------------------------------------------------ main, the -s option
STRATEGY_MAP ==
    [k \in {"macd", "ma", "boll", "bollinger", "kdj", "rsi", "volume", "vol",
            "combined", "combo"} |->
        CASE k \in {"macd", "ma"} -> "MA+MACD"
          [] k \in {"boll", "bollinger"} -> "Bollinger"
          [] k = "kdj" -> "KDJ"
          [] k = "rsi" -> "RSI"
          [] k \in {"volume", "vol"} -> "Volume"
          [] OTHER -> "Combined"]

\* the comma-separated pieces a user may type: aliases as they are, aliases in
\* another case or with blanks around them, and names that are no alias
TypedKeys == DOMAIN STRATEGY_MAP \cup {"RSI", " kdj", "sma", "MA+MACD"}

\* s.strip().lower()
strip_lower(s) ==
    CASE s = "RSI" -> "rsi"
      [] s = " kdj" -> "kdj"
      [] s = "MA+MACD" -> "ma+macd"
      [] OTHER -> s

\* STRATEGY_MAP.get(s_input)
strategy_name(s_input) ==
    IF s_input \in DOMAIN STRATEGY_MAP THEN STRATEGY_MAP[s_input] ELSE "None"

MainCall(typed) ==
    /\ BacktestIdle
    /\ GenerateIdle
    /\ ScoreIdle
    /\ kdj = Idle /\ pipe = Idle /\ batch = Idle /\ auth = Idle
    /\ cli = [pc |-> "parse",
              strategy_inputs |-> [k \in 1..Len(typed) |-> strip_lower(typed[k])],
              idx |-> 1, selected_strategies |-> <<>>, warnings |-> <<>>,
              errors |-> <<>>]

InitMain ==
    \E n \in 1..MaxKeys :
      \E typed \in SeqsOf(TypedKeys, n) :
        MainCall(typed)

\* one iteration of `for s_input in strategy_inputs`
ParseKey ==
    /\ cli.pc = "parse"
    /\ cli.idx <= Len(cli.strategy_inputs)
    /\ LET s_input == cli.strategy_inputs[cli.idx]
       IN  IF strategy_name(s_input) # "None"
           THEN cli' = [cli EXCEPT !.idx = @ + 1,
                                   !.selected_strategies =
                                        Append(@, strategy_name(s_input))]
           ELSE cli' = [cli EXCEPT !.idx = @ + 1,
                                   !.warnings = Append(@, s_input)]
    /\ UNCHANGED <<backtest_state, generate_state, score_state, kdj, pipe, batch, auth>>

\* if not selected_strategies: print the error and return
NoValidStrategy ==
    /\ cli.pc = "parse"
    /\ cli.idx > Len(cli.strategy_inputs)
    /\ cli.selected_strategies = <<>>
    /\ cli' = [cli EXCEPT !.pc = "returned", !.errors = Append(@, "no valid strategy")]
    /\ UNCHANGED <<backtest_state, generate_state, score_state, kdj, pipe, batch, auth>>

\* otherwise the analysis runs in mode 'selected' with the strategies kept
AnalyzeSelected ==
    /\ cli.pc = "parse"
    /\ cli.idx > Len(cli.strategy_inputs)
    /\ cli.selected_strategies # <<>>
    /\ cli' = [cli EXCEPT !.pc = "analyze"]
    /\ UNCHANGED <<backtest_state, generate_state, score_state, kdj, pipe, batch, auth>>

NextMain ==
    \/ ParseKey
    \/ NoValidStrategy
    \/ AnalyzeSelected

SpecMain == InitMain /\ [][NextMain]_vars

\* ------------------------------------------------------------ analyze_batch
\* what analysing one instrument does: backtest_stock and the steps after it
\* succeed, backtest_stock returns nothing, no strategy has a trade, or an
\* exception is raised
Outcomes == {"analysed", "no data", "no valid strategy", "raises"}

BatchCall(outcomes) ==
    /\ BacktestIdle
    /\ GenerateIdle
    /\ ScoreIdle
    /\ kdj = Idle /\ pipe = Idle /\ cli = Idle /\ auth = Idle
    /\ batch = [pc |-> "loop", stock_codes |-> outcomes, idx |-> 1,
                results |-> <<>>, printed |-> <<>>]

InitBatch ==
    \E n \in 0..MaxCodes :
      \E outcomes \in SeqsOf(Outcomes, n) :
        BatchCall(outcomes)

\* an iteration that reaches results.append({...})
AnalyzeCode ==
    /\ batch.pc = "loop"
    /\ batch.idx <= Len(batch.stock_codes)
    /\ batch.stock_codes[batch.idx] = "analysed"
    /\ batch' = [batch EXCEPT !.idx = @ + 1,
                              !.results = Append(@, [code |-> batch.idx])]
    /\ UNCHANGED <<backtest_state, generate_state, score_state, kdj, pipe, cli, auth>>

\* an iteration that ends in one of the two `continue` statements of the try
SkipCode ==
    /\ batch.pc = "loop"
    /\ batch.idx <= Len(batch.stock_codes)
    /\ batch.stock_codes[batch.idx] \in {"no data", "no valid strategy"}
    /\ batch' = [batch EXCEPT !.idx = @ + 1,
                              !.printed = Append(@, batch.idx)]
    /\ UNCHANGED <<backtest_state, generate_state, score_state, kdj, pipe, cli, auth>>

\* except Exception as e: print(...); continue
CatchException ==
    /\ batch.pc = "loop"
    /\ batch.idx <= Len(batch.stock_codes)
    /\ batch.stock_codes[batch.idx] = "raises"
    /\ batch' = [batch EXCEPT !.idx = @ + 1,
                              !.printed = Append(@, batch.idx)]
    /\ UNCHANGED <<backtest_state, generate_state, score_state, kdj, pipe, cli, auth>>

\* return results
ReturnResults ==
    /\ batch.pc = "loop"
    /\ batch.idx > Len(batch.stock_codes)
    /\ batch' = [batch EXCEPT !.pc = "returned"]
    /\ UNCHANGED <<backtest_state, generate_state, score_state, kdj, pipe, cli, auth>>

NextBatch ==
    \/ AnalyzeCode
    \/ SkipCode
    \/ CatchException
    \/ ReturnResults

SpecBatch == InitBatch /\ [][NextBatch]_vars

\* -------------------------------------------------------------------- login
\* timedelta(minutes=15), and the threshold of `if attempts >= 5`
LockMinutes == 15
MaxAttempts == 5

\* the clients whose requests for the one user may be in flight together
Clients == {"a", "b"}

\* the columns of the users row that login reads and writes
UserRow(attempts, until) == [login_attempts |-> attempts, locked_until |-> until]

\* if user['locked_until'] and datetime.now() < locked_until
is_locked_Never(user, t) == FALSE
is_locked(user, t) == user.locked_until # None /\ t < user.locked_until

NoResponse == [kind |-> "none"]
Response(c, k, ok) == [client |-> c, kind |-> k, password_ok |-> ok]

\* a registered user who has not failed yet, the clock at minute 1
InitLogin ==
    /\ BacktestIdle
    /\ GenerateIdle
    /\ ScoreIdle
    /\ kdj = Idle /\ pipe = Idle /\ cli = Idle /\ batch = Idle
    /\ auth = [now |-> 1, users |-> UserRow(0, None),
               req |-> [c \in Clients |-> Idle],
               session |-> {}, response |-> NoResponse]

InFlight(c) == auth.req[c].pc = "fetched"

\* login up to user = get_user_by_username(username), for a request carrying
\* the right or a wrong password
Fetch(c, ok) ==
    /\ auth.req[c].pc = "idle"
    /\ auth' = [auth EXCEPT !.req[c] = [pc |-> "fetched", password_ok |-> ok,
                                        user |-> auth.users]]
    /\ UNCHANGED <<backtest_state, generate_state, score_state, kdj, pipe, cli, batch>>

\* the same, when no other request is being handled
FetchAlone(c, ok) ==
    /\ \A o \in Clients : ~InFlight(o)
    /\ Fetch(c, ok)

\* the account is locked: 403, nothing is written
RejectLocked(c) ==
    /\ InFlight(c)
    /\ is_locked(auth.req[c].user, auth.now)
    /\ auth' = [auth EXCEPT !.req[c] = Idle,
                            !.response = Response(c, "locked", auth.req[c].password_ok)]
    /\ UNCHANGED <<backtest_state, generate_state, score_state, kdj, pipe, cli, batch>>

\* check_password_hash fails: update_login_attempts with the row's count plus
\* one, and a lock 15 minutes ahead from the 5th failure on
WrongPassword(c) ==
    /\ InFlight(c)
    /\ ~is_locked(auth.req[c].user, auth.now)
    /\ ~auth.req[c].password_ok
    /\ LET attempts == auth.req[c].user.login_attempts + 1
       IN  auth' = [auth EXCEPT
                !.users = IF attempts >= MaxAttempts
                          THEN UserRow(attempts, auth.now + LockMinutes)
                          ELSE UserRow(attempts, None),
                !.req[c] = Idle,
                !.response = Response(c, "wrong", FALSE)]
    /\ UNCHANGED <<backtest_state, generate_state, score_state, kdj, pipe, cli, batch>>

\* the password matches: the session gets user_id, update_last_login resets
\* the row
LoginSuccess(c) ==
    /\ InFlight(c)
    /\ ~is_locked(auth.req[c].user, auth.now)
    /\ auth.req[c].password_ok
    /\ auth' = [auth EXCEPT !.users = UserRow(0, None),
                            !.session = @ \cup {c},
                            !.req[c] = Idle,
                            !.response = Response(c, "ok", TRUE)]
    /\ UNCHANGED <<backtest_state, generate_state, score_state, kdj, pipe, cli, batch>>

\* datetime.now() moves on, by a minute or by one minute less than the lock
Tick ==
    /\ \E d \in {1, LockMinutes - 1} :
          /\ auth.now + d <= MaxNow
          /\ auth' = [auth EXCEPT !.now = @ + d]
    /\ UNCHANGED <<backtest_state, generate_state, score_state, kdj, pipe, cli, batch>>

Handle(c) ==
    \/ RejectLocked(c)
    \/ WrongPassword(c)
    \/ LoginSuccess(c)

\* requests handled one after the other
NextLogin ==
    \/ \E c \in Clients, ok \in BOOLEAN : FetchAlone(c, ok)
    \/ \E c \in Clients : Handle(c)
    \/ Tick

SpecLogin == InitLogin /\ [][NextLogin]_vars

\* requests handled by concurrent threads
NextThreaded ==
    \/ \E c \in Clients, ok \in BOOLEAN : Fetch(c, ok)
    \/ \E c \in Clients : Handle(c)
    \/ Tick

SpecThreaded == InitLogin /\ [][NextThreaded]_vars

TypeOK ==
    /\ pc \in {"idle", "stock", "start", "loop", "stats", "done"}
    /\ position \in {0, 1}
    /\ Len(close) = Len(dates)
    /\ i \in 1..(Len(close) + 1)
    /\ Len(equity_curve) <= Len(close)

\* ------------------------------------------------------- derived quantities
N == Len(close)
InLoop == pc = "loop" /\ i <= N
Returned == pc = "done"

\* the ledger as far as it is known: closed trades, then the open position
LongAtBar(k) ==
    \/ \E j \in 1..Len(trades) :
          trades[j].entry_date < dates[k] /\ dates[k] <= trades[j].exit_date
    \/ position > 0 /\ entry_date < dates[k]

SharesAtBar(k) ==
    IF \E j \in 1..Len(trades) :
          trades[j].entry_date < dates[k] /\ dates[k] <= trades[j].exit_date
    THEN LET j == CHOOSE j \in 1..Len(trades) :
                    trades[j].entry_date < dates[k] /\ dates[k] <= trades[j].exit_date
         IN  RDiv(RAdd(trades[j].return_abs, initial_capital), R(trades[j].exit_price))
    ELSE holding_shares

ClosedBefore(k) == { j \in 1..Len(trades) : trades[j].exit_date < dates[k] }

CashAtBar(k) ==
    IF ClosedBefore(k) = {} THEN initial_capital
    ELSE LET j == CHOOSE j \in ClosedBefore(k) : \A m \in ClosedBefore(k) : m <= j
         IN  RAdd(trades[j].return_abs, initial_capital)

\* ------------------------------------------------------------------ claims

\* C1: every run of backtest_strategy on N bars returns an equity_curve of
\* exactly N points, one per bar in bar order, including the runs that close
\* no trade, where the curve is flat at initial capital.
C1_EquityCurveLength ==
    (Returned /\ has_column) =>
        /\ Len(result.equity_curve) = N
        /\ \A k \in 1..Len(result.equity_curve) :
              /\ result.equity_curve[k][1] = dates[k]
              /\ result.trade_count = 0 => result.equity_curve[k][2] = initial_capital

\* C2 as stated: FLAT at bar t with signal +1 or +2 buys at bar t's close with
\* all cash, whatever column was passed to backtest_strategy.
C2_BuyOnOneOrTwo ==
    [][(InLoop /\ position = 0 /\ sig[i] \in {1, 2}) =>
          /\ position' = 1
          /\ holding_shares' = RDiv(capital, R(close[i]))
          /\ capital' = Zero]_vars

\* C2 amended: FLAT at bar t with signal exactly +1 in the column buys at bar
\* t's close with all cash; a +2 in the column is a hold; the Combined
\* strategy's +2 buys like +1 because backtest_stock collapses it to +1.
C2_BuyOnOne ==
    [][(InLoop /\ position = 0) =>
          /\ sig[i] = 1 =>
                /\ position' = 1
                /\ holding_shares' = RDiv(capital, R(close[i]))
                /\ capital' = Zero
          /\ sig[i] = 2 =>
                /\ position' = 0
                /\ holding_shares' = holding_shares
                /\ capital' = capital
          /\ (caller = "backtest_stock" /\ signal_combined[i] \in {1, 2}) =>
                /\ position' = 1
                /\ holding_shares' = RDiv(capital, R(close[i]))
                /\ capital' = Zero]_vars

C2_Witness ==
    /\ caller = "backtest_stock" /\ pc = "loop" /\ i > 1
    /\ signal_combined[i - 1] = 2
    /\ position = 1 /\ entry_date = dates[i - 1]
    /\ capital = Zero
    /\ holding_shares = RDiv(initial_capital, R(close[i - 1]))

\* C3 as stated: LONG at bar t with signal <= -1 sells everything at bar t's
\* close, returns to FLAT and appends one Trade with
\* return_pct = (exit - entry) / entry * 100, whatever column was passed.
C3_SellOnMinusOneOrTwo ==
    [][(InLoop /\ position > 0 /\ sig[i] <= -1) =>
          /\ position' = 0
          /\ holding_shares' = Zero
          /\ capital' = RMul(holding_shares, R(close[i]))
          /\ Len(trades') = Len(trades) + 1
          /\ SubSeq(trades', 1, Len(trades)) = trades
          /\ trades'[Len(trades')].exit_price = close[i]
          /\ trades'[Len(trades')].return =
                RDiv(R((close[i] - entry_price) * 100), R(entry_price))]_vars

\* C3 amended: LONG at bar t with signal exactly -1 in the column sells
\* everything at bar t's close, returns to FLAT and appends one Trade with
\* return_pct = (exit - entry) / entry * 100; a -2 in the column is a hold;
\* the Combined strategy's -2 sells like -1 because backtest_stock collapses
\* it to -1.
C3_SellOnMinusOne ==
    [][(InLoop /\ position > 0) =>
          /\ (sig[i] = -1 \/ (caller = "backtest_stock" /\ signal_combined[i] \in {-1, -2})) =>
                /\ position' = 0
                /\ holding_shares' = Zero
                /\ capital' = RMul(holding_shares, R(close[i]))
                /\ Len(trades') = Len(trades) + 1
                /\ SubSeq(trades', 1, Len(trades)) = trades
                /\ trades'[Len(trades')].exit_price = close[i]
                /\ trades'[Len(trades')].return =
                      RDiv(R((close[i] - entry_price) * 100), R(entry_price))
          /\ sig[i] = -2 =>
                /\ position' = position
                /\ holding_shares' = holding_shares
                /\ trades' = trades]_vars

C3_Witness ==
    /\ caller = "backtest_stock" /\ pc = "loop" /\ i > 2
    /\ signal_combined[i - 1] = -2
    /\ position = 0
    /\ Len(trades) = 1 /\ trades[1].exit_date = dates[i - 1]
    /\ trades[1].return # Zero

\* C4: in every ledger with two or more trades, each trade's exit_date is
\* <= the next trade's entry_date (positions never overlap).
C4_NoOverlap ==
    /\ \A j \in 1..(Len(trades) - 1) :
          trades[j].exit_date <= trades[j + 1].entry_date
    /\ (Returned /\ result.trade_count >= 2) =>
          \A j \in 1..(result.trade_count - 1) :
              /\ result.trades[j].entry_date <= result.trades[j].exit_date
              /\ result.trades[j].exit_date <= result.trades[j + 1].entry_date

C4_Witness ==
    /\ Returned /\ result.trade_count >= 2
    /\ result.trades[1].exit_date < result.trades[2].entry_date

\* C5: a position still open after the last bar is force-liquidated at the
\* last bar's close: a final Trade with exit_date = last bar's date and
\* exit_price = last bar's close is emitted, and the run ends FLAT.
C5_ForcedClose ==
    [][/\ (pc = "loop" /\ i > N /\ position > 0) =>
             /\ Len(trades') = Len(trades) + 1
             /\ SubSeq(trades', 1, Len(trades)) = trades
             /\ trades'[Len(trades')].exit_date = dates[N]
             /\ trades'[Len(trades')].exit_price = close[N]
             /\ trades'[Len(trades')].entry_date = entry_date
             /\ trades'[Len(trades')].entry_price = entry_price
             /\ capital' = RMul(holding_shares, R(close[N]))
             /\ position' = 0
       /\ (pc = "stats" /\ pc' = "done") =>
             /\ position = 0
             /\ result'.trade_count > 0 => result'.trades = trades]_vars

C5_Witness ==
    /\ Returned /\ result.trade_count >= 1 /\ N >= 2
    /\ sig[N] # -1
    /\ result.trades[result.trade_count].exit_date = dates[N]
    /\ result.trades[result.trade_count].entry_date < dates[N]
    /\ position = 0

\* C6: at every bar the recorded equity is the mark-to-market value of the
\* account: shares * close if LONG when the bar is reached, else the cash;
\* so it is constant over every stretch of bars during which the run is FLAT.
C6_MarkToMarket ==
    /\ \A k \in 1..Len(equity_curve) :
          /\ equity_curve[k][1] = dates[k]
          /\ equity_curve[k][2] =
                IF LongAtBar(k) THEN RMul(SharesAtBar(k), R(close[k]))
                ELSE CashAtBar(k)
    /\ \A k \in 1..(Len(equity_curve) - 1) :
          (~LongAtBar(k) /\ ~LongAtBar(k + 1)) =>
              equity_curve[k][2] = equity_curve[k + 1][2]
    /\ (Returned /\ result.trade_count > 0) => result.equity_curve = equity_curve

C6_Witness ==
    /\ Returned /\ result.trade_count > 0
    /\ \E k \in 1..N : LongAtBar(k) /\ result.equity_curve[k][2] # initial_capital
    /\ \E k \in 1..(N - 1) :
          /\ ~LongAtBar(k) /\ ~LongAtBar(k + 1)
          /\ result.equity_curve[k][2] # initial_capital

\* C7: closes [10,11,12,11,13,14,12,15,16,14] on days 1..10 with signals
\* [0,0,1,0,0,-1,0,0,0,0] give exactly one Trade (entry 12, exit 14,
\* return_pct = 2/12*100) and the equity curve: initial capital on bars 0-1,
\* shares * close with shares = capital/12 on bars 2-5, capital*14/12 after.
C7_Scenario ==
    (Returned /\ close = ScenarioClose /\ sig = ScenarioSignal
       /\ dates = [k \in 1..10 |-> k]) =>
        /\ result.trade_count = 1
        /\ Len(result.trades) = 1
        /\ result.trades[1].entry_price = 12
        /\ result.trades[1].exit_price = 14
        /\ result.trades[1].entry_date = 3
        /\ result.trades[1].exit_date = 6
        /\ result.trades[1].return = <<50, 3>>
        /\ Len(result.equity_curve) = 10
        /\ \A k \in 1..2 : result.equity_curve[k] = <<k, initial_capital>>
        /\ \A k \in 3..6 :
              result.equity_curve[k] =
                  <<k, RMul(RDiv(initial_capital, R(12)), R(ScenarioClose[k]))>>
        /\ \A k \in 7..10 :
              result.equity_curve[k] = <<k, RDiv(RMul(initial_capital, R(14)), R(12))>>

C7_Witness ==
    /\ Returned /\ close = ScenarioClose /\ sig = ScenarioSignal
    /\ result.trade_count = 1
    /\ result.final_value = RDiv(RMul(initial_capital, R(7)), R(6))

\* C8: a run that closes no trade returns the neutral result: trade_count 0,
\* every metric zero, and final_value equal to the initial_capital passed to
\* the call, for every value of initial_capital.
C8_NeutralResult ==
    (Returned /\ has_column /\ N >= 1 /\ result.trade_count = 0) =>
        /\ result.trades = <<>>
        /\ result.total_return = Zero
        /\ result.annual_return = Zero
        /\ result.win_count = 0 /\ result.loss_count = 0
        /\ result.win_rate = Zero
        /\ result.avg_win = Zero /\ result.avg_loss = Zero
        /\ result.profit_factor = Zero
        /\ result.max_drawdown = Zero
        /\ result.sharpe_ratio = Zero
        /\ result.avg_hold_days = Zero
        /\ result.final_value = initial_capital

\* C9: with at least one losing trade, profit_factor is the sum of
\* |return_abs| over winning trades (return_pct > 0) divided by the sum of
\* |return_abs| over losing trades, and is never negative.
SumAbsReturnAbs(ts) == RSum([k \in 1..Len(ts) |-> RAbs(ts[k].return_abs)])

C9_ProfitFactor ==
    (Returned /\ result.trade_count > 0 /\ result.loss_count >= 1) =>
        LET wins == SelectSeq(result.trades, LAMBDA t : t.return[1] > 0)
            losses == SelectSeq(result.trades, LAMBDA t : t.return[1] <= 0)
        IN  /\ RLe(Zero, result.profit_factor)
            /\ RLt(Zero, SumAbsReturnAbs(losses)) =>
                  result.profit_factor =
                      RDiv(SumAbsReturnAbs(wins), SumAbsReturnAbs(losses))

\* C10: when every closed trade of a run is profitable (no trade has
\* return_pct <= 0), profit_factor is 0.
C10_ZeroLossProfitFactor ==
    (Returned /\ result.trade_count > 0
       /\ \A j \in 1..Len(result.trades) : result.trades[j].return[1] > 0) =>
        result.profit_factor = Zero

C10_Witness ==
    /\ Returned /\ result.trade_count >= 2
    /\ \A j \in 1..Len(result.trades) :
          result.trades[j].return[1] > 0 /\ result.trades[j].return_abs[1] > 0
    /\ result.profit_factor = Zero
    /\ result.win_count = result.trade_count

\* C11: _calculate_max_drawdown is the maximum over index pairs a <= b of
\* (value[a] - value[b]) / value[a] * 100, the largest percentage decline
\* from a running peak to a later trough; it is 0 for an empty or
\* non-decreasing curve and lies in [0, 100] for positive values.
PairDeclines(curve) ==
    { RMul(RDiv(RSub(curve[a][2], curve[b][2]), curve[a][2]), Hundred) :
        <<a, b>> \in { p \in (1..Len(curve)) \X (1..Len(curve)) : p[1] <= p[2] } }

NonDecreasing(curve) ==
    \A k \in 1..(Len(curve) - 1) : RLe(curve[k][2], curve[k + 1][2])

C11_MaxDrawdown ==
    LET dd == _calculate_max_drawdown(equity_curve)
    IN  /\ equity_curve = <<>> => dd = Zero
        /\ equity_curve # <<>> =>
              /\ dd \in PairDeclines(equity_curve)
              /\ \A x \in PairDeclines(equity_curve) : RLe(x, dd)
        /\ NonDecreasing(equity_curve) => dd = Zero
        /\ RLe(Zero, dd) /\ RLe(dd, Hundred)
        /\ (Returned /\ result.trade_count > 0) =>
              result.max_drawdown = _calculate_max_drawdown(result.equity_curve)

C11_Witness ==
    /\ Returned /\ result.trade_count > 0
    /\ RLt(Zero, result.max_drawdown)
    /\ \E a, b, c \in 1..Len(result.equity_curve) :
          /\ a < b /\ b < c
          /\ RLt(result.equity_curve[a][2], result.equity_curve[b][2])
          /\ RLt(result.equity_curve[c][2], result.equity_curve[b][2])
          /\ result.max_drawdown =
                RMul(RDiv(RSub(result.equity_curve[b][2], result.equity_curve[c][2]),
                          result.equity_curve[b][2]), Hundred)

\* ------------------------------------------------- claims, generate_signals
\* the loop is writing bar li (li >= 2), whose indicator values are row and
\* whose predecessor's are prev_row
Visiting == spc = "gen_loop" /\ li <= n_bars /\ li >= 2
\* the loop has written the last bar, and row / prev_row are still its inputs
LastWritten == spc \in {"gen_loop", "gen_done"} /\ li > n_bars /\ n_bars >= 2

Undefined(S) == \E x \in S : x = NaN

MAInputs(p, c) == {p.MA5, p.MA20, p.DIF, p.DEA, c.MA5, c.MA20, c.DIF, c.DEA}
BollInputs(p, c) == {p.BOLL_POS, c.BOLL_POS}
KDJInputs(p, c) == {p.K, p.D, c.K, c.D}
RSIInputs(p, c) == {p.RSI, c.RSI}
VolumeInputs(p, c) == {p.high_20, p.low_20, c.price, c.VOL_RATIO}

\* C12: for every bar t and every per-strategy rule, if an indicator value
\* the rule needs at bar t or t-1 is undefined (NaN), the rule's signal at
\* bar t is 0: no cross, sell-by-OR branch or breakout fires on it.
C12_UndefinedGivesZero ==
    [][Visiting =>
          /\ Undefined(MAInputs(prev_row, row)) => out'[li].signal = 0
          /\ Undefined(BollInputs(prev_row, row)) => out'[li].signal_boll = 0
          /\ Undefined(KDJInputs(prev_row, row)) => out'[li].signal_kdj = 0
          /\ Undefined(RSIInputs(prev_row, row)) => out'[li].signal_rsi = 0
          /\ Undefined(VolumeInputs(prev_row, row)) => out'[li].signal_volume = 0]_vars

\* C13: the first bar of every series carries 0 in all five per-strategy
\* signals and in the combined signal, and its combined score reads 0,
\* whatever its indicator values are.
C13_FirstBarSilent ==
    (spc \in {"gen_loop", "gen_done"} /\ n_bars >= 1) =>
        /\ out[1].signal = 0
        /\ out[1].signal_boll = 0
        /\ out[1].signal_kdj = 0
        /\ out[1].signal_rsi = 0
        /\ out[1].signal_volume = 0
        /\ out[1].combined = 0
        /\ ScoreRead(out[1]) = 0

\* a finished two-bar run whose first bar had MA5 at or below MA20 and DIF
\* at or below DEA: the bar a loop from bar 0 would have turned into a sell
C13_Witness ==
    /\ spc = "gen_done" /\ n_bars = 2 /\ has_score
    /\ prev_row.MA5 # NaN /\ prev_row.MA20 # NaN
    /\ ~ma5_above(prev_row) /\ ~dif_above(prev_row)
    /\ out[1] = ZeroSignals
    /\ out[2].signal # 0

\* x crosses above y: x <= y at t-1 and x > y at t
CrossesAbove(xp, yp, xc, yc) == xp <= yp /\ xc > yc
\* the mirror image: x >= y at t-1 and x < y at t
CrossesBelowMirror(xp, yp, xc, yc) == xp >= yp /\ xc < yc
\* x leaves the upper side: x > y at t-1 and x <= y at t
CrossesBelowFromAbove(xp, yp, xc, yc) == xp > yp /\ xc <= yc

MABuy(p, c) ==
    \/ CrossesAbove(p.MA5, p.MA20, c.MA5, c.MA20) /\ c.DIF > c.DEA
    \/ CrossesAbove(p.DIF, p.DEA, c.DIF, c.DEA) /\ c.MA5 > c.MA20

KDJBuy(p, c) ==
    /\ ~Undefined(KDJInputs(p, c))
    /\ CrossesAbove(p.K, p.D, c.K, c.D) /\ c.K < 50
KDJSell(p, c) ==
    /\ ~Undefined(KDJInputs(p, c))
    /\ CrossesBelowFromAbove(p.K, p.D, c.K, c.D) /\ c.K > 50

\* C15: at every bar t > 0 the KDJ signal is +1 exactly when K crosses above
\* D at t and K < 50 at t, -1 exactly when K crosses below D at t and K > 50
\* at t, and 0 otherwise; the K < 30 and K > 70 zones give the same values.
C15_Kdj ==
    [][Visiting =>
          /\ out'[li].signal_kdj = 1 <=> KDJBuy(prev_row, row)
          /\ out'[li].signal_kdj = -1 <=> KDJSell(prev_row, row)
          /\ (~KDJBuy(prev_row, row) /\ ~KDJSell(prev_row, row)) =>
                out'[li].signal_kdj = 0]_vars

\* C16: at every bar score_combined = 30*signal + 20*signal_boll +
\* 20*signal_volume + 15*signal_kdj + 15*signal_rsi with components in
\* {-1, 0, 1}, and signal_combined is 2 for score >= 60, 1 for [40, 60),
\* 0 for (-40, 40), -1 for (-60, -40], -2 for score <= -60.
C16_CombinedScore ==
    (spc = "gen_done" /\ has_score) =>
        \A k \in 1..n_bars :
           LET r == out[k]
               score == r.score_combined
           IN  /\ {r.signal, r.signal_boll, r.signal_volume, r.signal_kdj,
                    r.signal_rsi} \subseteq {-1, 0, 1}
               /\ score = 30 * r.signal + 20 * r.signal_boll + 20 * r.signal_volume
                             + 15 * r.signal_kdj + 15 * r.signal_rsi
               /\ r.combined = 2 <=> score >= 60
               /\ r.combined = 1 <=> (40 <= score /\ score < 60)
               /\ r.combined = 0 <=> (-40 < score /\ score < 40)
               /\ r.combined = -1 <=> (-60 < score /\ score <= -40)
               /\ r.combined = -2 <=> score <= -60

\* components {1, 1, 0, 0, 0}: score 50, combined signal 1
C16_Witness ==
    /\ spc = "gen_done" /\ has_score /\ n_bars = 2
    /\ out[2] = [signal |-> 1, signal_boll |-> 1, signal_kdj |-> 0,
                  signal_rsi |-> 0, signal_volume |-> 0,
                  score_combined |-> 50, combined |-> 1]

\* ------------------------------------------------------- claims, calc_score
Scored == cpc = "score_done"
Defined(x) == x # Absent /\ x # NaN

\* the threshold tables as the specification states them
TableTrend(ma, macd) ==
    CASE ma = "bull" /\ macd = "bull" -> 30
      [] ma = "bull" /\ macd = "bear" -> 20
      [] ma = "bear" /\ macd = "bull" -> 15
      [] OTHER -> 5
TableRsi(x) ==
    CASE x < 30 -> 16
      [] 30 <= x /\ x < 50 -> 20
      [] 50 <= x /\ x < 70 -> 14
      [] x >= 70 -> 6
TableVolume(x) ==
    CASE x < 7 -> 5
      [] 7 <= x /\ x < 15 -> 10
      [] 15 <= x /\ x < 25 -> 8
      [] x >= 25 -> 4
TableWinRate(x) ==
    CASE x >= 65 -> 20
      [] 55 <= x /\ x < 65 -> 16
      [] 50 <= x /\ x < 55 -> 12
      [] 40 <= x /\ x < 50 -> 8
      [] x < 40 -> 4
TableReturn(x) ==
    CASE x > 30 -> 10
      [] 15 < x /\ x <= 30 -> 8
      [] 5 < x /\ x <= 15 -> 6
      [] 0 < x /\ x <= 5 -> 4
      [] x <= 0 -> 0
TableSharpe(x) ==
    CASE x > 20 -> 10
      [] 10 < x /\ x <= 20 -> 8
      [] 5 < x /\ x <= 10 -> 6
      [] 0 < x /\ x <= 5 -> 4
      [] x <= 0 -> 0

Traded(strats) == { j \in 1..Len(strats) : strats[j].trade_count >= 1 }

\* C17: the total is the sum of the trend (5/15/20/30), RSI, volume and three
\* best-strategy sub-scores read from the threshold tables, and lies in
\* 0..100 for every input; bull/bull, RSI 45, volume ratio 1.0, win_rate 70,
\* annual_return 20, sharpe 1.5 total 96.
C17_Total ==
    Scored =>
        LET a == score_arg
            S == a.strategies
        IN  /\ scores.trend = TableTrend(a.ma, a.macd)
            /\ Defined(a.rsi) => scores.rsi = TableRsi(a.rsi)
            /\ scores.rsi \in {16, 20, 14, 6, 10}
            /\ Defined(a.vol_ratio) => scores.volume = TableVolume(a.vol_ratio)
            /\ scores.volume \in {5, 10, 8, 4}
            /\ (Len(S) = 1 /\ Traded(S) = {1}) =>
                  /\ scores.strategy_winrate = TableWinRate(S[1].win_rate)
                  /\ scores.strategy_return = TableReturn(S[1].annual_return)
                  /\ scores.strategy_sharpe = TableSharpe(S[1].sharpe_ratio)
            /\ scores.total = scores.trend + scores.rsi + scores.volume
                                + scores.strategy_winrate + scores.strategy_return
                                + scores.strategy_sharpe
            /\ 0 <= scores.total /\ scores.total <= 100
            /\ a = ScoreArg("bull", "bull", 45, 10, <<ScenarioStrategy>>) =>
                  scores.total = 96

C17_Witness ==
    /\ Scored
    /\ score_arg = ScoreArg("bull", "bull", 45, 10, <<ScenarioStrategy>>)
    /\ scores.trend = 30 /\ scores.rsi = 20 /\ scores.volume = 10
    /\ scores.strategy_winrate = 20 /\ scores.strategy_return = 8
    /\ scores.strategy_sharpe = 8
    /\ scores.total = 96

\* C18: a missing or undefined (NaN) current RSI scores 10 and a missing or
\* undefined current volume ratio scores 5, also when the value is the NaN of
\* the latest bar that backtest_stock passes on.
C18_MissingIndicator ==
    Scored =>
        /\ ~Defined(score_arg.rsi) => scores.rsi = 10
        /\ ~Defined(score_arg.vol_ratio) => scores.volume = 5

\* C19: the three strategy sub-scores come from the strategy with the highest
\* total_return among those with trade_count >= 1; with no such strategy, or
\* no strategy at all, they are 0 and a total and a grade are still returned.
C19_BestStrategy ==
    Scored =>
        LET S == score_arg.strategies
        IN  IF Traded(S) = {}
            THEN /\ scores.strategy_winrate = 0
                 /\ scores.strategy_return = 0
                 /\ scores.strategy_sharpe = 0
                 /\ scores.total \in 0..100
                 /\ scores.grade \in {"A", "B", "C", "D", "E"}
            ELSE \E j \in Traded(S) :
                    /\ \A m \in Traded(S) : S[m].total_return <= S[j].total_return
                    /\ scores.strategy_winrate = TableWinRate(S[j].win_rate)
                    /\ scores.strategy_return = TableReturn(S[j].annual_return)
                    /\ scores.strategy_sharpe = TableSharpe(S[j].sharpe_ratio)

\* the only traded strategy lost money and stands next to one without trades
C19_Witness ==
    /\ Scored
    /\ score_arg.strategies = <<Strategy(4, -20, 60, -20, -10), EmptyStrategy>>
    /\ scores.strategy_winrate = 16
    /\ scores.strategy_return = 0
    /\ scores.strategy_sharpe = 0

\* C20: grade A for total >= 80, B for [65, 80), C for [50, 65), D for
\* [35, 50), E below; the action depends on the grade alone: A buy, B buy,
\* C hold, D wait, E avoid.
C20_Grade ==
    Scored =>
        LET t == scores.total
        IN  /\ scores.grade = "A" <=> t >= 80
            /\ scores.grade = "B" <=> (65 <= t /\ t < 80)
            /\ scores.grade = "C" <=> (50 <= t /\ t < 65)
            /\ scores.grade = "D" <=> (35 <= t /\ t < 50)
            /\ scores.grade = "E" <=> t < 35
            /\ scores.action = CASE scores.grade = "A" -> "buy"
                                  [] scores.grade = "B" -> "buy"
                                  [] scores.grade = "C" -> "hold"
                                  [] scores.grade = "D" -> "wait"
                                  [] scores.grade = "E" -> "avoid"

\* a total on the A/B boundary
C20_Witness == Scored /\ scores.total = 80 /\ scores.grade = "A" /\ scores.action = "buy"

\* ------------------------------------------------ claims, backtest ledger
Positive(x) == RLt(Zero, x)
Running == pc \in {"loop", "stats", "done"} /\ has_column /\ N >= 1

OneOfCashAndShares ==
    /\ position = 1 <=> (Positive(holding_shares) /\ capital = Zero)
    /\ position = 0 <=> (holding_shares = Zero /\ Positive(capital))

IgnoredSignalsChangeNothing ==
    [][(InLoop /\ \/ (sig[i] = 1 /\ position = 1)
                  \/ (sig[i] = -1 /\ position = 0)) =>
          UNCHANGED <<position, capital, holding_shares, entry_price,
                      entry_date, trades>>]_vars

\* C25 as stated: at every point of a run exactly one of cash and shares is
\* non-zero (position = 1 iff shares > 0 and cash = 0, position = 0 iff
\* shares = 0 and cash > 0), the forced close and the statistics included.
C25_CashOrSharesAlways == Running => OneOfCashAndShares

\* C25 amended: the same at every point of the bar loop; the forced close
\* after the loop turns the shares into cash and sets position = 0 but
\* leaves the share count as it was.  A buy signal while LONG and a sell
\* signal while FLAT change nothing of position, cash, shares, entry
\* price / date and the trade list.
C25_CashOrSharesInLoop ==
    /\ [](pc = "loop" => OneOfCashAndShares)
    /\ [](Running => (position \in {0, 1}
                        /\ (position = 0 => Positive(capital))
                        /\ (position = 1 => capital = Zero)))
    /\ IgnoredSignalsChangeNothing

\* LONG since bar i-2, a buy signal at bar i-1 was ignored
C25_Witness ==
    /\ pc = "loop" /\ i > 2
    /\ position = 1 /\ entry_date = dates[i - 2] /\ sig[i - 1] = 1
    /\ trades = <<>>
    /\ holding_shares = RDiv(initial_capital, R(close[i - 2]))
    /\ capital = Zero

LedgerStep ==
    /\ (position = 0 /\ position' = 1) =>
          /\ trades' = trades
          /\ entry_date' = dates[i] /\ entry_price' = close[i]
    /\ (position = 1 /\ position' = 0) =>
          /\ Len(trades') = Len(trades) + 1
          /\ SubSeq(trades', 1, Len(trades)) = trades
          /\ trades'[Len(trades')].entry_date = entry_date
          /\ trades'[Len(trades')].entry_price = entry_price
    /\ (position' = position /\ pc = "loop") => trades' = trades

\* the ledger part of C26: every entry into LONG is closed by exactly one
\* Trade, by a later sell signal or by the forced close: entering adds no trade and fixes
\* entry_date / entry_price to the bar's, leaving LONG adds exactly one
\* trade carrying them, nothing else changes the ledger, and no run ends
\* LONG; so the trades of a run are its FLAT-to-LONG transitions.
C26_Ledger ==
    /\ [][LedgerStep]_vars
    /\ [](pc \in {"stats", "done"} => position = 0)
    /\ []((Returned /\ result.trade_count > 0) => result.trades = trades)

\* C26: every entry into LONG is eventually closed by exactly one Trade (by
\* a later sell signal or by the forced close): a LONG run becomes FLAT with
\* a trade in the ledger, and the ledger is kept as C26_Ledger says, so that
\* at the end the trades are the FLAT-to-LONG transitions taken.
C26_EventuallyClosed ==
    /\ (position = 1) ~> (position = 0 /\ Len(trades) >= 1)
    /\ C26_Ledger

\* an entry at the first bar, closed by the sell signal of the second
C26_Witness ==
    /\ Returned /\ has_column /\ N = 2
    /\ sig = <<1, -1>>
    /\ result.trade_count = 1
    /\ result.trades[1].entry_date = dates[1]
    /\ result.trades[1].entry_price = close[1]
    /\ result.trades[1].exit_date = dates[2]

RECURSIVE Compounded(_, _)
Compounded(ts, k) ==
    IF k = 0 THEN One
    ELSE RMul(Compounded(ts, k - 1),
              RDiv(R(ts[k].exit_price), R(ts[k].entry_price)))

\* C27: when trade_count > 0, final_value is the value of the last
\* equity-curve point and equals initial_capital times the product over all
\* trades of exit_price / entry_price.
C27_FinalValue ==
    (Returned /\ result.trade_count > 0) =>
        /\ result.final_value = result.equity_curve[Len(result.equity_curve)][2]
        /\ result.final_value =
              RMul(initial_capital, Compounded(result.trades, Len(result.trades)))

\* two trades with different prices, the second closed by the forced close
C27_Witness ==
    /\ Returned /\ result.trade_count = 2
    /\ result.trades[1].exit_price # result.trades[1].entry_price
    /\ result.trades[2].exit_price # result.trades[2].entry_price
    /\ result.trades[2].exit_date = dates[N] /\ sig[N] # -1
    /\ result.final_value # initial_capital

\* C28: a buy on the last bar is force-closed on that bar: a Trade with
\* entry_date = exit_date, hold_days 0 and return 0, counted as a loss; and
\* win_count + loss_count = trade_count in every result.
C28_LastBarBuy ==
    Returned =>
        /\ result.trade_count >= 0 =>
              result.win_count + result.loss_count = result.trade_count
        /\ (has_column /\ N >= 1 /\ sig[N] = 1
              /\ Len(trades) >= 1 /\ trades[Len(trades)].entry_date = dates[N]) =>
              LET t == result.trades[result.trade_count]
              IN  /\ t.exit_date = t.entry_date
                  /\ t.hold_days = 0
                  /\ t.return = Zero
                  /\ IsLoss(t) /\ ~IsWin(t)
                  /\ result.loss_count >= 1
                  /\ RLt(result.win_rate, Hundred)

\* the only trade of the run is the buy of the last bar
C28_Witness ==
    /\ Returned /\ has_column /\ N >= 2
    /\ result.trade_count = 1 /\ sig[N] = 1
    /\ result.trades[1].entry_date = dates[N]
    /\ result.trades[1].exit_date = dates[N]
    /\ result.loss_count = 1 /\ result.win_count = 0
    /\ result.win_rate = Zero

\* -------------------------------------------------------- claims, calc_kdj
\* bars of the series whose rsv is defined
DefinedRsv(t) == ~isna(rsv_of(kdj.df[t]))
\* the most recent bar before t with defined rsv, 0 if there is none
LastDefinedBefore(t) ==
    IF \E s \in 1..(t - 1) : DefinedRsv(s)
    THEN CHOOSE s \in 1..(t - 1) :
            DefinedRsv(s) /\ \A u \in (s + 1)..(t - 1) : ~DefinedRsv(u)
    ELSE 0
Kprev(t) == IF LastDefinedBefore(t) = 0 THEN <<50, 1>>
            ELSE kdj.k_values[LastDefinedBefore(t)]
Dprev(t) == IF LastDefinedBefore(t) = 0 THEN <<50, 1>>
            ELSE kdj.d_values[LastDefinedBefore(t)]
TwoThirdsOneThird(prev, x) == RAdd(RMul(<<2, 3>>, prev), RMul(<<1, 3>>, x))

\* C24: once calc_kdj has returned, every bar with defined RSV has
\* K = (2/3) Kprev + (1/3) RSV, D = (2/3) Dprev + (1/3) K and J = 3K - 2D, with
\* Kprev and Dprev taken from the most recent bar with defined RSV (50 if there
\* is none); every bar with undefined RSV has K, D and J undefined; and during
\* the loop the carried k_prev and d_prev are those of the most recent defined
\* bar, so an undefined bar leaves them unchanged.
C24_KdjFold ==
    /\ kdj.pc = "done" =>
          \A t \in 1..Len(kdj.df) :
              IF DefinedRsv(t)
              THEN /\ kdj.k_values[t] = TwoThirdsOneThird(Kprev(t), rsv_of(kdj.df[t]))
                   /\ kdj.d_values[t] = TwoThirdsOneThird(Dprev(t), kdj.k_values[t])
                   /\ kdj.J[t] = RSub(RMul(R(3), kdj.k_values[t]),
                                      RMul(R(2), kdj.d_values[t]))
              ELSE /\ isna(kdj.k_values[t])
                   /\ isna(kdj.d_values[t])
                   /\ isna(kdj.J[t])
    /\ kdj.pc = "loop" =>
          /\ kdj.k_prev = Kprev(kdj.i)
          /\ kdj.d_prev = Dprev(kdj.i)

\* a returned series with a defined bar, then an undefined one (high_n = low_n),
\* then a defined one whose K differs from the seed's fold
C24_Witness ==
    /\ kdj.pc = "done"
    /\ Len(kdj.df) = 3
    /\ DefinedRsv(1) /\ ~DefinedRsv(2) /\ DefinedRsv(3)
    /\ kdj.df[2].low_n # NaN
    /\ kdj.k_values[1] # <<50, 1>>
    /\ kdj.k_values[3] # TwoThirdsOneThird(<<50, 1>>, rsv_of(kdj.df[3]))

\* -------------------------------------------------- claims, short series
\* C21: a series shorter than 61 bars gives the RSI strategy the neutral
\* result: once backtest_stock has stored it, it has no trades.
C21_ShortSeriesNeutral ==
    (pipe.pc = "done" /\ Len(pipe.close) < 61) =>
        /\ pipe.strategies.trade_count = 0
        /\ pipe.strategies = _empty_result

\* ------------------------------------------------ claims, unknown strategy
UnknownKeys == { k \in 1..Len(cli.strategy_inputs) :
                    cli.strategy_inputs[k] \notin DOMAIN STRATEGY_MAP }

\* C22: when a requested key is none of the known strategies, main ends with
\* an error that names the key and analyses nothing, not even the known keys
\* of the same request.
C22_UnknownKeyRejected ==
    (cli.pc \in {"analyze", "returned"} /\ UnknownKeys # {}) =>
        /\ cli.pc = "returned"
        /\ \A k \in UnknownKeys :
              \E e \in 1..Len(cli.errors) : cli.errors[e] = cli.strategy_inputs[k]

\* ---------------------------------------------------- claims, batch runs
EntriesOf(k) == { e \in 1..Len(batch.results) : batch.results[e].code = k }

\* C23: a returned batch has handled every instrument, holds the analysis of
\* every instrument that could be analysed, and holds one entry for each
\* requested instrument, the failing ones included.
C23_OneEntryPerInstrument ==
    batch.pc = "returned" =>
        /\ batch.idx = Len(batch.stock_codes) + 1
        /\ \A k \in 1..Len(batch.stock_codes) :
              batch.stock_codes[k] = "analysed" => EntriesOf(k) # {}
        /\ Len(batch.results) = Len(batch.stock_codes)
        /\ \A k \in 1..Len(batch.stock_codes) : Cardinality(EntriesOf(k)) = 1

\* ------------------------------------------------------------ claims, login
\* the step in which the request of client c is answered
Handled(c) == auth.req[c].pc = "fetched" /\ auth'.req[c].pc = "idle"
\* the stored row says the account is locked at the current minute
LockedNow == auth.users.locked_until # 0 /\ auth.now < auth.users.locked_until

SequentialLoginStep ==
    \A c \in Clients :
        Handled(c) =>
          /\ (~LockedNow /\ ~auth.req[c].password_ok) =>
                /\ auth'.users.login_attempts = auth.users.login_attempts + 1
                /\ auth.users.login_attempts = 4 =>
                      auth'.users = [login_attempts |-> 5,
                                     locked_until |-> auth.now + 15]
          /\ LockedNow =>
                /\ auth'.session = auth.session
                /\ auth'.users = auth.users
                /\ auth'.response.kind = "locked"
          /\ (~LockedNow /\ auth.req[c].password_ok) =>
                /\ auth'.users = [login_attempts |-> 0, locked_until |-> 0]
                /\ c \in auth'.session
                /\ auth'.response.kind = "ok"

\* C29: with requests handled one after the other, every wrong password
\* outside a lock raises the stored login_attempts by one (so the count is the
\* number of consecutive wrong passwords) and the 5th sets locked_until 15
\* minutes ahead; while locked_until is in the future a request is answered
\* without a session and without a change to login_attempts or locked_until,
\* whatever its password; a successful login sets login_attempts to 0 and
\* clears locked_until.
C29_Lockout == [][SequentialLoginStep]_vars

\* the account was locked by the 5th failure and a request with the right
\* password has just been turned away
C29_Witness ==
    /\ auth # Idle
    /\ auth.response.kind = "locked"
    /\ auth.response.password_ok
    /\ auth.users = [login_attempts |-> 5, locked_until |-> 16]
    /\ auth.now = 15
    /\ auth.session = {}

\* C30: under any interleaving of the requests, the answer to a wrong password
\* leaves the stored login_attempts exactly one higher than it was.
C30_NoLostUpdate ==
    [][\A c \in Clients :
          (Handled(c) /\ auth'.response.kind = "wrong") =>
              auth'.users.login_attempts = auth.users.login_attempts + 1]_vars

====
